---- MODULE Spec2Model ----
(***************************************************************************)
(* dogfood: job ingestion, skills profile building and job matching       *)
(* (src/lib/skills.js), with the job store of src/lib/config.js, the       *)
(* history extraction of src/lib/analyzer.js and the analyze screen.       *)
(*                                                                         *)
(* JavaScript strings are sequences of one-character strings, so that      *)
(* toLowerCase, trim, includes, replace, slice and charCodeAt are computed *)
(* as the code computes them.  The alphabet is printable ASCII (32..126).  *)
(***************************************************************************)
EXTENDS Integers, Sequences, FiniteSets, TLC

\* ------------------------------------------------------------ strings

\* The characters with char codes 32..126, in code order.  A TLA+ string cannot
\* hold the grave accent (code 96); its place holds a name no input contains.
Alphabet == <<" ","!","\"","#","$","%","&","'","(",")","*","+",",","-",".","/","0","1","2","3","4","5","6","7","8","9",":",";","<","=",">","?","@","A","B","C","D","E","F","G","H","I","J","K","L","M","N","O","P","Q","R","S","T","U","V","W","X","Y","Z","[","\\","]","^","_","GRAVE","a","b","c","d","e","f","g","h","i","j","k","l","m","n","o","p","q","r","s","t","u","v","w","x","y","z","{","|","}","~">>

\* String.prototype.charCodeAt for one character.
charCodeAt == [c \in {Alphabet[i] : i \in 1..Len(Alphabet)} |->
                 31 + (CHOOSE i \in 1..Len(Alphabet) : Alphabet[i] = c)]

fromCharCode(n) == Alphabet[n - 31]

isUpper(c) == charCodeAt[c] \in 65..90
isLowerAlnum(c) == charCodeAt[c] \in (97..122) \cup (48..57)

lowerChar(c) == IF isUpper(c) THEN fromCharCode(charCodeAt[c] + 32) ELSE c

\* String.prototype.toLowerCase
toLowerCase(s) == [i \in 1..Len(s) |-> lowerChar(s[i])]

\* String.prototype.trim (the only white space of the alphabet is the blank)
trim(s) ==
  LET keep == {i \in 1..Len(s) : s[i] # " "}
  IN  IF keep = {} THEN <<>>
      ELSE SubSeq(s, CHOOSE i \in keep : \A j \in keep : i <= j,
                     CHOOSE i \in keep : \A j \in keep : i >= j)

\* String.prototype.includes
includes(s, sub) ==
  \E i \in 0..(Len(s) - Len(sub)) : SubSeq(s, i + 1, i + Len(sub)) = sub

\* String.prototype.slice(0, n)
slice(s, n) == IF Len(s) <= n THEN s ELSE SubSeq(s, 1, n)

\* The positions 1..n as a sequence
indices(n) == [i \in 1..n |-> i]

\* String.prototype.split(","): the pieces between consecutive commas
splitComma(s) ==
  LET commas == SelectSeq(indices(Len(s)), LAMBDA i : s[i] = ",")
      from(k) == IF k = 1 THEN 1 ELSE commas[k - 1] + 1
      to(k) == IF k = Len(commas) + 1 THEN Len(s) ELSE commas[k] - 1
  IN  [k \in 1..(Len(commas) + 1) |-> SubSeq(s, from(k), to(k))]

\* The concatenation of parts[a..b].  The range is halved at each call, which
\* keeps TLC's evaluation shallow on long strings.
RECURSIVE concatRange(_, _, _)
concatRange(parts, a, b) ==
  IF a > b THEN <<>>
  ELSE IF a = b THEN parts[a]
  ELSE concatRange(parts, a, (a + b) \div 2) \o concatRange(parts, (a + b) \div 2 + 1, b)

concat(parts) == concatRange(parts, 1, Len(parts))

\* Array.prototype.join
join(parts, sep) ==
  concat([i \in 1..Len(parts) |-> IF i = 1 THEN parts[i] ELSE sep \o parts[i]])

\* Number.prototype.toString(10) of a natural number
RECURSIVE digits(_)
digits(n) ==
  IF n < 10 THEN <<fromCharCode(48 + n)>>
  ELSE Append(digits(n \div 10), fromCharCode(48 + (n % 10)))

\* ------------------------------------------------------------ JSON values

\* A parsed JSON value (or undefined) is a pair <<type, content>>: the
\* characters of a string, a number, TRUE or FALSE, the elements of an array,
\* or the members of an object in key order, each [k |-> key, v |-> value].
Undefined == <<"undef", 0>>
Null      == <<"null", 0>>
Str(x)    == <<"str", x>>
Num(x)    == <<"num", x>>
Bool(b)   == <<"bool", b>>
Arr(x)    == <<"arr", x>>
Obj(x)    == <<"obj", x>>

tag(v) == v[1]
val(v) == v[2]

field(k, v) == [k |-> k, v |-> v]

\* JavaScript truthiness of a value
truthy(v) ==
  CASE tag(v) = "undef" -> FALSE
    [] tag(v) = "null"  -> FALSE
    [] tag(v) = "bool"  -> val(v)
    [] tag(v) = "num"   -> val(v) # 0
    [] tag(v) = "str"   -> val(v) # <<>>
    [] OTHER         -> TRUE

\* a || b
orElse(a, b) == IF truthy(a) THEN a ELSE b

isNullish(v) == tag(v) \in {"undef", "null"}
isPrimitive(v) == tag(v) \notin {"arr", "obj"}

\* Property read v[key]: a member of an object, undefined on an object without
\* it and on a number, boolean, string or array (no job field is an index or a
\* built-in property name).  Reading a property of null or undefined throws;
\* the callers test isNullish first.
get(v, key) ==
  IF tag(v) # "obj" THEN Undefined
  ELSE LET hits == {i \in 1..Len(val(v)) : val(v)[i].k = key}
       IN  IF hits = {} THEN Undefined
           ELSE val(v)[CHOOSE i \in hits : \A j \in hits : i >= j].v

\* String(v), as a template literal converts a value
RECURSIVE toStr(_)
toStr(v) ==
  CASE tag(v) = "str"   -> val(v)
    [] tag(v) = "num"   -> digits(val(v))
    [] tag(v) = "bool"  -> IF val(v) THEN <<"t","r","u","e">> ELSE <<"f","a","l","s","e">>
    [] tag(v) = "null"  -> <<"n","u","l","l">>
    [] tag(v) = "undef" -> <<"u","n","d","e","f","i","n","e","d">>
    [] tag(v) = "arr"   ->
         join([i \in 1..Len(val(v)) |->
                 IF isNullish(val(v)[i]) THEN <<>> ELSE toStr(val(v)[i])], <<",">>)
    [] OTHER         -> <<"[","o","b","j","e","c","t"," ","O","b","j","e","c","t","]">>

\* The JSON escape of one character of a string
escapeChar(c) ==
  IF c = "\"" THEN <<"\\", "\"">>
  ELSE IF c = "\\" THEN <<"\\", "\\">>
  ELSE <<c>>

quote(s) == <<"\"">> \o concat([i \in 1..Len(s) |-> escapeChar(s[i])]) \o <<"\"">>

\* JSON.stringify(v) without indentation
RECURSIVE stringify(_)
stringify(v) ==
  CASE tag(v) = "str"  -> quote(val(v))
    [] tag(v) = "num"  -> digits(val(v))
    [] tag(v) = "bool" -> IF val(v) THEN <<"t","r","u","e">> ELSE <<"f","a","l","s","e">>
    [] tag(v) = "arr"  ->
         <<"[">> \o join([i \in 1..Len(val(v)) |-> stringify(val(v)[i])], <<",">>) \o <<"]">>
    [] tag(v) = "obj"  ->
         <<"{">> \o join([i \in 1..Len(val(v)) |->
                            quote(val(v)[i].k) \o <<":">> \o stringify(val(v)[i].v)],
                         <<",">>) \o <<"}">>
    [] OTHER        -> <<"n","u","l","l">>

\* ------------------------------------------------------------ job ids

\* replace(/[^a-z0-9]+/g, "-"): every maximal run of other characters becomes
\* one hyphen.
hyphenate(s) ==
  LET keep == SelectSeq(indices(Len(s)),
                        LAMBDA i : isLowerAlnum(s[i]) \/ i = 1 \/ isLowerAlnum(s[i - 1]))
  IN  [k \in 1..Len(keep) |-> IF isLowerAlnum(s[keep[k]]) THEN s[keep[k]] ELSE "-"]

\* A 32-bit integer is kept as two 16-bit halves, [hi, lo], of its two's
\* complement bit pattern.
\* One round of simpleHash's loop: hash = ((hash << 5) - hash) + char, then
\* hash & hash, i.e. 31 * hash + char modulo 2^32.
hashRound(h, c) ==
  LET lo == h.lo * 31 + c
      hi == h.hi * 31 + (lo \div 65536)
  IN  [hi |-> hi % 65536, lo |-> lo % 65536]

\* The loop of simpleHash over str[a..b], entered with hash h.  The rounds run
\* in order; the range is halved at each call and the hash of the first half
\* is computed (left = left) before the second half is entered, which keeps
\* TLC's evaluation shallow.
RECURSIVE hashRange(_, _, _, _)
hashRange(str, a, b, h) ==
  IF a > b THEN h
  ELSE IF a = b THEN hashRound(h, charCodeAt[str[a]])
  ELSE LET mid == (a + b) \div 2
           left == hashRange(str, a, mid, h)
       IN  IF left = left THEN hashRange(str, mid + 1, b, left) ELSE left

\* Math.abs of the signed value of a bit pattern (2^31 for -2^31)
abs32(h) ==
  IF h.hi < 32768 THEN h
  ELSE IF h.lo = 0 THEN [hi |-> 65536 - h.hi, lo |-> 0]
  ELSE [hi |-> 65535 - h.hi, lo |-> 65536 - h.lo]

simpleHash(str) == abs32(hashRange(str, 1, Len(str), [hi |-> 0, lo |-> 0]))

hexDigit(n) == IF n < 10 THEN fromCharCode(48 + n) ELSE fromCharCode(87 + n)

\* Number.prototype.toString(16) of a hash
toString16(h) ==
  LET all == <<hexDigit(h.hi \div 4096), hexDigit((h.hi \div 256) % 16),
               hexDigit((h.hi \div 16) % 16), hexDigit(h.hi % 16),
               hexDigit(h.lo \div 4096), hexDigit((h.lo \div 256) % 16),
               hexDigit((h.lo \div 16) % 16), hexDigit(h.lo % 16)>>
      sig == {i \in 1..8 : all[i] # "0"}
  IN  IF sig = {} THEN <<"0">>
      ELSE SubSeq(all, CHOOSE i \in sig : \A j \in sig : i <= j, 8)

kId == <<"i","d">>
kTitle == <<"t","i","t","l","e">>
kCompany == <<"c","o","m","p","a","n","y">>
kUrl == <<"u","r","l">>
kDescription == <<"d","e","s","c","r","i","p","t","i","o","n">>
kSkills == <<"s","k","i","l","l","s">>
kLocation == <<"l","o","c","a","t","i","o","n">>
kSalary == <<"s","a","l","a","r","y">>
kType == <<"t","y","p","e">>
kRemote == <<"r","e","m","o","t","e">>
kSource == <<"s","o","u","r","c","e">>
kDatePosted == <<"d","a","t","e","P","o","s","t","e","d">>
kDateAdded == <<"d","a","t","e","A","d","d","e","d">>
kStatus == <<"s","t","a","t","u","s">>
kJobs == <<"j","o","b","s">>

\* generateJobId(job), a string
generateJobId(job) ==
  LET base == slice(hyphenate(toLowerCase(
                      toStr(get(job, kCompany)) \o <<"-">> \o toStr(get(job, kTitle)))), 40)
      hash == slice(toString16(simpleHash(stringify(job))), 6)
  IN  base \o <<"-">> \o hash

\* ------------------------------------------------------------ validation

JOB_SCHEMA_required == <<kTitle, kCompany>>

\* validateJob(job).  Reading a field of null or undefined throws a TypeError.
validateJob(job) ==
  IF isNullish(job) THEN [threw |-> TRUE, valid |-> FALSE, errors |-> <<>>]
  ELSE
    LET missing == SelectSeq(JOB_SCHEMA_required, LAMBDA k : ~truthy(get(job, k)))
        e1 == [i \in 1..Len(missing) |-> <<"M","i","s","s","i","n","g"," ","r","e","q","u","i","r","e","d"," ","f","i","e","l","d",":"," ">> \o missing[i]]
        sk == get(job, kSkills)
        e2 == IF truthy(sk) /\ tag(sk) # "arr" THEN <<<<"S","k","i","l","l","s"," ","m","u","s","t"," ","b","e"," ","a","n"," ","a","r","r","a","y">>>> ELSE <<>>
    IN  [threw |-> FALSE, valid |-> (e1 \o e2) = <<>>, errors |-> e1 \o e2]

\* ------------------------------------------------------------ normalization

\* normalizeSkills(skills): a string is split at commas; falsy elements are
\* dropped; calling toLowerCase on an element that is no string, or filter on
\* a value that is no array, throws a TypeError.
normalizeSkills(skills) ==
  LET parts == splitComma(val(skills))
      arr == IF tag(skills) = "str"
             THEN Arr([i \in 1..Len(parts) |-> Str(trim(parts[i]))])
             ELSE skills
      kept == SelectSeq(val(arr), truthy)
  IN  IF tag(arr) # "arr" \/ \E i \in 1..Len(kept) : tag(kept[i]) # "str"
      THEN [threw |-> TRUE, v |-> Null]
      ELSE [threw |-> FALSE,
            v |-> Arr([i \in 1..Len(kept) |-> Str(trim(toLowerCase(val(kept[i]))))])]

\* x?.trim(): undefined for null and undefined, a TypeError for a value that
\* is no string.
trimThrows(x) == ~isNullish(x) /\ tag(x) # "str"
optTrim(x) == IF tag(x) = "str" THEN Str(trim(val(x))) ELSE Undefined

\* new Date().toISOString(): the clock reading, written in decimal.  The date
\* part taken for datePosted is modelled by the same reading.
toISOString(now) == Str(digits(now))

\* normalizeJob(job) at clock reading now: [threw, job].
normalizeJob(job, now) ==
  LET title == get(job, kTitle)
      company == get(job, kCompany)
      location == get(job, kLocation)
      remote == get(job, kRemote)
      skills == normalizeSkills(orElse(get(job, kSkills), Arr(<<>>)))
      remoteThrows == isNullish(remote) /\ ~isNullish(location) /\ tag(location) # "str"
  IN  IF isNullish(job) \/ trimThrows(title) \/ trimThrows(company)
         \/ skills.threw \/ remoteThrows
      THEN [threw |-> TRUE, job |-> Null]
      ELSE [threw |-> FALSE, job |->
        [id |-> orElse(get(job, kId), Str(generateJobId(job))),
         title |-> orElse(optTrim(title), Str(<<"U","n","k","n","o","w","n"," ","P","o","s","i","t","i","o","n">>)),
         company |-> orElse(optTrim(company), Str(<<"U","n","k","n","o","w","n"," ","C","o","m","p","a","n","y">>)),
         url |-> orElse(get(job, kUrl), Null),
         description |-> orElse(get(job, kDescription), Str(<<>>)),
         skills |-> skills.v,
         location |-> orElse(location, Str(<<"N","o","t"," ","s","p","e","c","i","f","i","e","d">>)),
         salary |-> orElse(get(job, kSalary), Null),
         type |-> orElse(get(job, kType), Str(<<"f","u","l","l","-","t","i","m","e">>)),
         remote |-> IF ~isNullish(remote) THEN remote
                    ELSE IF tag(location) = "str" /\ includes(toLowerCase(val(location)), <<"r","e","m","o","t","e">>)
                    THEN Bool(TRUE) ELSE Null,
         source |-> orElse(get(job, kSource), Str(<<"m","a","n","u","a","l">>)),
         datePosted |-> orElse(get(job, kDatePosted), toISOString(now)),
         dateAdded |-> orElse(get(job, kDateAdded), toISOString(now)),
         status |-> orElse(get(job, kStatus), Str(<<"n","e","w">>))]]

\* ------------------------------------------------------------ state

VARIABLES
  \* the job store
  file,     \* the input file at the path given to ingestJobsFromFile
  store,    \* the persisted job collection (JOBS_FILE), [] when it is absent
  result,   \* outcome of the latest ingestJobsFromFile call on this file
  calls,    \* number of ingestJobsFromFile calls so far; also the clock
  \* building the skills profile
  analyzed,         \* the analyzed repositories, in analysis order
  permuted,         \* the same repositories in another order
  profile,          \* <<buildSkillsProfile(analyzed)>> once built, else <<>>
  profilePermuted,  \* <<buildSkillsProfile(permuted)>> once built, else <<>>
  profileIncluded,  \* <<buildSkillsProfile(the non-excluded of analyzed)>>, else <<>>
  \* matching jobs
  storedJobs,     \* the stored jobs handed to matchJobsToProfile
  skillsProfile,  \* the skills profile handed to matchJobsToProfile
  preferences,    \* config.preferences: wantSkills, avoidSkills, locations
  matches,        \* <<matchJobsToProfile(storedJobs, skillsProfile, preferences)>>, else <<>>
  categorized,    \* <<categorizeMatches(matches)>> once computed, else <<>>
  matchThrew,     \* whether matchJobsToProfile threw a TypeError
  \* calculating a proficiency
  tierTotal,      \* totalRepos
  tierWeight,     \* weight, in tenths
  tierCount,      \* repoCount
  tierCountMore,  \* a repoCount that is no smaller
  tier,           \* <<calculateProficiency(tierCount, tierTotal, tierWeight)>>, else <<>>
  tierMore,       \* <<calculateProficiency(tierCountMore, tierTotal, tierWeight)>>, else <<>>
  \* extracting the history of a repository
  gitRuns,        \* what each version-control invocation does in the repository
  gitHistory,     \* <<analyzeGitHistory(repoPath)>> once it has returned, else <<>>
  \* the analyze screen
  screenRepos,    \* repos: the analyses of the discovered repositories, in order
  screenIndex,    \* currentIndex, counted from 1
  screenAnalyzed, \* analyzedRepos as of the latest render
  screenState,    \* state: reviewing or complete
  storeSkills,    \* <<the profile written by store.update('skills', ...)>>, else <<>>
  storeRepos,     \* <<the list written by store.update('repos', ...)>>, else <<>>
  endedBy,        \* the action that ended the review, "none" before
  \* two processes ingesting at once
  procFile,       \* the input file of each process
  procAt,         \* where each process is: start, loaded or done
  procLoaded,     \* existingJobs of each process, as loadJobs returned it
  procReport,     \* what each call returned or threw
  overlapped      \* whether a process loaded while the other was between load and save

ingestVars == <<file, store, result, calls>>
buildVars == <<analyzed, permuted, profile, profilePermuted, profileIncluded>>
matchVars == <<storedJobs, skillsProfile, preferences, matches, categorized, matchThrew>>
tierVars == <<tierTotal, tierWeight, tierCount, tierCountMore, tier, tierMore>>
historyVars == <<gitRuns, gitHistory>>
screenVars == <<screenRepos, screenIndex, screenAnalyzed, screenState, storeSkills, storeRepos, endedBy>>
procVars == <<procFile, procAt, procLoaded, procReport, overlapped>>
vars == <<ingestVars, buildVars, matchVars, tierVars, historyVars, screenVars, procVars>>

\* ------------------------------------------------------------ job store

\* Every record written by saveJobs holds JSON values only, so JSON.stringify
\* followed by JSON.parse returns the same values; what the round trip loses
\* is object identity, which Set membership (setHas) accounts for.
\* A variant of loadJobs that finds no stored collection
loadJobsNothing(persisted) == <<>>

loadJobs(persisted) == persisted
saveJobs(jobs) == jobs

\* Set.prototype.has under SameValueZero: primitives are compared by type and
\* value; an array or object is found only by reference, and every value that
\* JSON.parse produces is a fresh object.
setHas(ids, id) == isPrimitive(id) /\ id \in ids

\* What for...of iterates over: the elements of an array, the characters of a
\* string; any other value is not iterable.
iterable(v) == tag(v) \in {"arr", "str"}
elements(v) == IF tag(v) = "arr" THEN val(v) ELSE [i \in 1..Len(val(v)) |-> Str(<<val(v)[i]>>)]

\* One iteration of the loop over rawJobs.  acc: [jobs, ids, added, skipped,
\* errors, threw].
ingestOne(acc, rawJob, now) ==
  LET validation == validateJob(rawJob)
      norm == normalizeJob(rawJob, now)
  IN  IF acc.threw THEN acc
      ELSE IF validation.threw THEN [acc EXCEPT !.threw = TRUE]
      ELSE IF ~validation.valid
        THEN [acc EXCEPT !.errors = Append(@, [job |-> rawJob, errors |-> validation.errors])]
      ELSE IF norm.threw THEN [acc EXCEPT !.threw = TRUE]
      ELSE IF setHas(acc.ids, norm.job.id) THEN [acc EXCEPT !.skipped = @ + 1]
      ELSE [acc EXCEPT !.jobs = Append(@, norm.job),
                       !.ids = @ \cup {norm.job.id},
                       !.added = @ + 1]

RECURSIVE ingestLoop(_, _, _, _)
ingestLoop(raw, i, acc, now) ==
  IF i > Len(raw) THEN acc
  ELSE ingestLoop(raw, i + 1, ingestOne(acc, raw[i], now), now)

Threw(msg) ==
  [kind |-> "threw", error |-> msg, added |-> 0, skipped |-> 0, errors |-> <<>>]

\* ingestJobsFromFile(filepath) with the file's content f, the persisted
\* collection and the clock: [report, saved, jobs], where saved says whether
\* saveJobs was reached and jobs is what it wrote.
ingestJobsFromFile(f, persisted, now) ==
  LET data == f.v
      rawJobs == IF tag(data) = "arr" THEN data ELSE orElse(get(data, kJobs), Arr(<<>>))
      existingJobs == loadJobs(persisted)
      existingIds == {existingJobs[i].id : i \in 1..Len(existingJobs)}
      acc == ingestLoop(elements(rawJobs), 1,
                        [jobs |-> existingJobs, ids |-> existingIds, added |-> 0,
                         skipped |-> 0, errors |-> <<>>, threw |-> FALSE], now)
      fail(msg) == [report |-> Threw(msg), saved |-> FALSE, jobs |-> persisted]
  IN  IF f.k = "missing" THEN fail("File not found")
      ELSE IF f.k = "garbage" THEN fail("Invalid JSON")
      ELSE IF isNullish(data) THEN fail("TypeError")
      ELSE IF ~iterable(rawJobs) THEN fail("TypeError")
      ELSE IF acc.threw THEN fail("TypeError")
      ELSE [report |-> [kind |-> "report", error |-> "", added |-> acc.added,
                        skipped |-> acc.skipped, errors |-> acc.errors],
            saved |-> TRUE, jobs |-> saveJobs(acc.jobs)]

\* ------------------------------------------------------------ skills profile

\* FRAMEWORK_CATEGORIES: pattern -> category, display name, weight.  A weight
\* is kept in tenths (15 for 1.5).
FRAMEWORK_CATEGORIES ==
  "react" :> [category |-> "frontend", name |-> <<"R","e","a","c","t">>, weight |-> 15]
  @@ "vue" :> [category |-> "frontend", name |-> <<"V","u","e",".","j","s">>, weight |-> 13]
  @@ "angular" :> [category |-> "frontend", name |-> <<"A","n","g","u","l","a","r">>, weight |-> 13]
  @@ "svelte" :> [category |-> "frontend", name |-> <<"S","v","e","l","t","e">>, weight |-> 12]
  @@ "nextjs" :> [category |-> "frontend", name |-> <<"N","e","x","t",".","j","s">>, weight |-> 14]
  @@ "nuxt" :> [category |-> "frontend", name |-> <<"N","u","x","t",".","j","s">>, weight |-> 13]
  @@ "gatsby" :> [category |-> "frontend", name |-> <<"G","a","t","s","b","y">>, weight |-> 12]
  @@ "nodejs-backend" :> [category |-> "backend", name |-> <<"N","o","d","e",".","j","s"," ","B","a","c","k","e","n","d">>, weight |-> 14]
  @@ "nestjs" :> [category |-> "backend", name |-> <<"N","e","s","t","J","S">>, weight |-> 13]
  @@ "express" :> [category |-> "backend", name |-> <<"E","x","p","r","e","s","s",".","j","s">>, weight |-> 12]
  @@ "fastify" :> [category |-> "backend", name |-> <<"F","a","s","t","i","f","y">>, weight |-> 12]
  @@ "mongodb" :> [category |-> "database", name |-> <<"M","o","n","g","o","D","B">>, weight |-> 12]
  @@ "orm" :> [category |-> "database", name |-> <<"O","R","M"," ","(","P","r","i","s","m","a","/","T","y","p","e","O","R","M",")">>, weight |-> 13]
  @@ "docker" :> [category |-> "devops", name |-> <<"D","o","c","k","e","r">>, weight |-> 14]
  @@ "kubernetes" :> [category |-> "devops", name |-> <<"K","u","b","e","r","n","e","t","e","s">>, weight |-> 15]
  @@ "ci-cd" :> [category |-> "devops", name |-> <<"C","I","/","C","D">>, weight |-> 13]
  @@ "infrastructure-as-code" :> [category |-> "devops", name |-> <<"I","n","f","r","a","s","t","r","u","c","t","u","r","e"," ","a","s"," ","C","o","d","e">>, weight |-> 14]
  @@ "testing" :> [category |-> "quality", name |-> <<"T","e","s","t","i","n","g">>, weight |-> 12]
  @@ "e2e-testing" :> [category |-> "quality", name |-> <<"E","2","E"," ","T","e","s","t","i","n","g">>, weight |-> 13]
  @@ "game-development" :> [category |-> "specialty", name |-> <<"G","a","m","e"," ","D","e","v","e","l","o","p","m","e","n","t">>, weight |-> 15]
  @@ "3d-graphics" :> [category |-> "specialty", name |-> <<"3","D"," ","G","r","a","p","h","i","c","s">>, weight |-> 14]
  @@ "data-visualization" :> [category |-> "specialty", name |-> <<"D","a","t","a"," ","V","i","s","u","a","l","i","z","a","t","i","o","n">>, weight |-> 13]
  @@ "desktop-app" :> [category |-> "specialty", name |-> <<"D","e","s","k","t","o","p"," ","A","p","p","s"," ","(","E","l","e","c","t","r","o","n",")">>, weight |-> 13]
  @@ "mobile-app" :> [category |-> "specialty", name |-> <<"M","o","b","i","l","e"," ","D","e","v","e","l","o","p","m","e","n","t">>, weight |-> 14]
  @@ "graphql" :> [category |-> "api", name |-> <<"G","r","a","p","h","Q","L">>, weight |-> 13]
  @@ "component-architecture" :> [category |-> "architecture", name |-> <<"C","o","m","p","o","n","e","n","t"," ","A","r","c","h","i","t","e","c","t","u","r","e">>, weight |-> 11]
  @@ "api-development" :> [category |-> "architecture", name |-> <<"A","P","I"," ","D","e","v","e","l","o","p","m","e","n","t">>, weight |-> 13]
  @@ "mvc" :> [category |-> "architecture", name |-> <<"M","V","C"," ","P","a","t","t","e","r","n">>, weight |-> 11]
  @@ "state-management" :> [category |-> "architecture", name |-> <<"S","t","a","t","e"," ","M","a","n","a","g","e","m","e","n","t">>, weight |-> 12]
  @@ "react-hooks" :> [category |-> "architecture", name |-> <<"R","e","a","c","t"," ","H","o","o","k","s">>, weight |-> 11]
  @@ "tailwind" :> [category |-> "styling", name |-> <<"T","a","i","l","w","i","n","d"," ","C","S","S">>, weight |-> 12]
  @@ "css-in-js" :> [category |-> "styling", name |-> <<"C","S","S","-","i","n","-","J","S">>, weight |-> 11]
  @@ "typescript" :> [category |-> "tooling", name |-> <<"T","y","p","e","S","c","r","i","p","t">>, weight |-> 14]
  @@ "bundling" :> [category |-> "tooling", name |-> <<"B","u","i","l","d"," ","T","o","o","l","s">>, weight |-> 11]
  @@ "linting" :> [category |-> "tooling", name |-> <<"C","o","d","e"," ","Q","u","a","l","i","t","y">>, weight |-> 10]

\* LANGUAGE_SKILLS: language name -> level, aliases, parent (empty when the
\* entry has none).
LANGUAGE_SKILLS ==
  <<"J","a","v","a","S","c","r","i","p","t">> :> [level |-> "language", aliases |-> <<<<"j","s">>, <<"n","o","d","e">>, <<"n","o","d","e","j","s">>>>, parent |-> <<>>]
  @@ <<"J","a","v","a","S","c","r","i","p","t"," ","(","R","e","a","c","t",")">> :> [level |-> "language", aliases |-> <<>>, parent |-> <<"J","a","v","a","S","c","r","i","p","t">>]
  @@ <<"T","y","p","e","S","c","r","i","p","t">> :> [level |-> "language", aliases |-> <<<<"t","s">>>>, parent |-> <<>>]
  @@ <<"T","y","p","e","S","c","r","i","p","t"," ","(","R","e","a","c","t",")">> :> [level |-> "language", aliases |-> <<>>, parent |-> <<"T","y","p","e","S","c","r","i","p","t">>]
  @@ <<"P","y","t","h","o","n">> :> [level |-> "language", aliases |-> <<<<"p","y">>, <<"p","y","t","h","o","n","3">>>>, parent |-> <<>>]
  @@ <<"G","o">> :> [level |-> "language", aliases |-> <<<<"g","o","l","a","n","g">>>>, parent |-> <<>>]
  @@ <<"R","u","s","t">> :> [level |-> "language", aliases |-> <<<<"r","s">>>>, parent |-> <<>>]
  @@ <<"J","a","v","a">> :> [level |-> "language", aliases |-> <<>>, parent |-> <<>>]
  @@ <<"C","#">> :> [level |-> "language", aliases |-> <<<<"c","s","h","a","r","p">>, <<"d","o","t","n","e","t">>>>, parent |-> <<>>]
  @@ <<"C">> :> [level |-> "language", aliases |-> <<>>, parent |-> <<>>]
  @@ <<"C","+","+">> :> [level |-> "language", aliases |-> <<<<"c","p","p">>>>, parent |-> <<>>]
  @@ <<"R","u","b","y">> :> [level |-> "language", aliases |-> <<<<"r","b">>>>, parent |-> <<>>]
  @@ <<"P","H","P">> :> [level |-> "language", aliases |-> <<>>, parent |-> <<>>]
  @@ <<"S","w","i","f","t">> :> [level |-> "language", aliases |-> <<>>, parent |-> <<>>]
  @@ <<"K","o","t","l","i","n">> :> [level |-> "language", aliases |-> <<>>, parent |-> <<>>]
  @@ <<"S","c","a","l","a">> :> [level |-> "language", aliases |-> <<>>, parent |-> <<>>]
  @@ <<"E","l","i","x","i","r">> :> [level |-> "language", aliases |-> <<>>, parent |-> <<>>]
  @@ <<"H","a","s","k","e","l","l">> :> [level |-> "language", aliases |-> <<>>, parent |-> <<>>]
  @@ <<"L","u","a">> :> [level |-> "language", aliases |-> <<>>, parent |-> <<>>]
  @@ <<"S","Q","L">> :> [level |-> "language", aliases |-> <<>>, parent |-> <<>>]
  @@ <<"S","h","e","l","l">> :> [level |-> "language", aliases |-> <<<<"b","a","s","h">>, <<"s","h">>>>, parent |-> <<>>]
  @@ <<"H","T","M","L">> :> [level |-> "markup", aliases |-> <<>>, parent |-> <<>>]
  @@ <<"C","S","S">> :> [level |-> "styling", aliases |-> <<>>, parent |-> <<>>]
  @@ <<"S","C","S","S">> :> [level |-> "styling", aliases |-> <<>>, parent |-> <<"C","S","S">>]
  @@ <<"S","a","s","s">> :> [level |-> "styling", aliases |-> <<>>, parent |-> <<"C","S","S">>]
  @@ <<"V","u","e">> :> [level |-> "framework", aliases |-> <<>>, parent |-> <<>>]
  @@ <<"S","v","e","l","t","e">> :> [level |-> "framework", aliases |-> <<>>, parent |-> <<>>]

patternToDomain ==
  "game-development" :> "Game Development"
  @@ "3d-graphics" :> "3D Graphics & Visualization"
  @@ "data-visualization" :> "Data Visualization"
  @@ "mobile-app" :> "Mobile Development"
  @@ "desktop-app" :> "Desktop Applications"
  @@ "api-development" :> "API & Backend Services"
  @@ "kubernetes" :> "Cloud Infrastructure"
  @@ "docker" :> "DevOps"
  @@ "ci-cd" :> "DevOps"
  @@ "infrastructure-as-code" :> "Cloud Infrastructure"
  @@ "testing" :> "Quality Assurance"
  @@ "e2e-testing" :> "Quality Assurance"

frameworkToDomain ==
  "frontend" :> "Frontend Development"
  @@ "backend" :> "Backend Development"
  @@ "database" :> "Database & Data"
  @@ "devops" :> "DevOps"
  @@ "specialty" :> "Specialized Development"

\* A JavaScript object used as a map keeps its keys in insertion order: it is a
\* sequence of [k |-> key, v |-> value] with distinct keys.
hasKey(m, k) == \E i \in 1..Len(m) : m[i].k = k
lookup(m, k) == m[CHOOSE i \in 1..Len(m) : m[i].k = k].v

\* m[k] = v: an existing key keeps its place
put(m, k, v) ==
  IF hasKey(m, k) THEN [i \in 1..Len(m) |-> IF m[i].k = k THEN field(k, v) ELSE m[i]]
  ELSE Append(m, field(k, v))

\* A variant of sortDescBy that puts the later of two equal keys first
sortDescByLaterFirst(s, keys) ==
  LET rank(i) == 1 + Cardinality({j \in 1..Len(s) :
                      keys[j] > keys[i] \/ (keys[j] = keys[i] /\ j > i)})
  IN  [k \in 1..Len(s) |-> s[CHOOSE i \in 1..Len(s) : rank(i) = k]]

\* A variant of sortDescBy that leaves the order as it is
leftUnsorted(s, keys) == s

\* Array.prototype.sort with comparator (a, b) => key(b) - key(a), the keys of
\* the elements given beside them: descending by key, and stable, so equal
\* keys keep their order.
sortDescBy(s, keys) ==
  LET rank(i) == 1 + Cardinality({j \in 1..Len(s) :
                      keys[j] > keys[i] \/ (keys[j] = keys[i] /\ j < i)})
  IN  [k \in 1..Len(s) |-> s[CHOOSE i \in 1..Len(s) : rank(i) = k]]

repoCountsOf(entries) == [i \in 1..Len(entries) |-> entries[i].v.repoCount]

\* The elements of s without repetitions, each at its first place (a Set)
distinct(s) ==
  LET first == SelectSeq(indices(Len(s)), LAMBDA i : \A j \in 1..(i - 1) : s[j] # s[i])
  IN  [k \in 1..Len(first) |-> s[first[k]]]

\* Variants of calculateProficiency: one with strict comparisons, one that
\* falls back to the lowest tier for a ratio above 1
calculateProficiencyStrict(repoCount, totalRepos, weight) ==
  IF repoCount * weight > 5 * totalRepos THEN "expert"
  ELSE IF repoCount * weight > 3 * totalRepos THEN "advanced"
  ELSE IF 2 * repoCount * weight > 3 * totalRepos THEN "intermediate"
  ELSE "familiar"

calculateProficiencyCapped(repoCount, totalRepos, weight) ==
  IF repoCount * weight > 10 * totalRepos THEN "familiar"
  ELSE IF repoCount * weight >= 5 * totalRepos THEN "expert"
  ELSE IF repoCount * weight >= 3 * totalRepos THEN "advanced"
  ELSE IF 2 * repoCount * weight >= 3 * totalRepos THEN "intermediate"
  ELSE "familiar"

\* calculateProficiency(repoCount, totalRepos, weight), the weight in tenths:
\* ratio = (repoCount / totalRepos) * weight against 0.5, 0.3 and 0.15.
calculateProficiency(repoCount, totalRepos, weight) ==
  IF repoCount * weight >= 5 * totalRepos THEN "expert"
  ELSE IF repoCount * weight >= 3 * totalRepos THEN "advanced"
  ELSE IF 2 * repoCount * weight >= 3 * totalRepos THEN "intermediate"
  ELSE "familiar"

\* deriveDomains(patterns, frameworks)
deriveDomains(patterns, frameworks) ==
  LET known == SelectSeq(patterns, LAMBDA p : p \in DOMAIN patternToDomain)
      cats == SelectSeq([i \in 1..Len(frameworks) |-> frameworks[i].v.category],
                        LAMBDA c : c \in DOMAIN frameworkToDomain)
  IN  distinct([i \in 1..Len(known) |-> patternToDomain[known[i]]]
               \o [i \in 1..Len(cats) |-> frameworkToDomain[cats[i]]])

\* A variant of addLanguage that keeps the latest file count instead of the sum
addLanguageLatestCount(counts, lang) ==
  LET old == IF hasKey(counts, lang.name) THEN lookup(counts, lang.name)
             ELSE [count |-> 0, repos |-> 0]
  IN  put(counts, lang.name, [count |-> lang.count, repos |-> old.repos + 1])

\* Dates are day numbers; 0 stands for a missing date.
\* The aggregation loop's body for one language of a repository
addLanguage(counts, lang) ==
  LET old == IF hasKey(counts, lang.name) THEN lookup(counts, lang.name)
             ELSE [count |-> 0, repos |-> 0]
  IN  put(counts, lang.name, [count |-> old.count + lang.count, repos |-> old.repos + 1])

\* for (const lang of repo.languages || []), from the i-th on
RECURSIVE languagesLoop(_, _, _)
languagesLoop(langs, i, counts) ==
  IF i > Len(langs) THEN counts
  ELSE languagesLoop(langs, i + 1, addLanguage(counts, langs[i]))

\* ... for one pattern: patternCounts
addPattern(counts, pattern) ==
  put(counts, pattern, (IF hasKey(counts, pattern) THEN lookup(counts, pattern) ELSE 0) + 1)

\* ... for one pattern: frameworkCounts
addFramework(counts, pattern) ==
  IF pattern \notin DOMAIN FRAMEWORK_CATEGORIES THEN counts
  ELSE LET old == IF hasKey(counts, pattern) THEN lookup(counts, pattern)
                  ELSE [info |-> FRAMEWORK_CATEGORIES[pattern], repos |-> 0]
       IN  put(counts, pattern, [old EXCEPT !.repos = @ + 1])

\* for (const pattern of repo.patterns || []), from the i-th on: the two
\* tallies it keeps
RECURSIVE patternsLoop(_, _, _)
patternsLoop(patterns, i, counts) ==
  IF i > Len(patterns) THEN counts
  ELSE patternsLoop(patterns, i + 1,
                    [patternCounts |-> addPattern(counts.patternCounts, patterns[i]),
                     frameworkCounts |-> addFramework(counts.frameworkCounts, patterns[i])])

\* ... for one dependency of one ecosystem
addTool(counts, ecosystem, dep) ==
  LET old == IF hasKey(counts, dep) THEN lookup(counts, dep)
             ELSE [name |-> dep, ecosystem |-> ecosystem, repos |-> 0]
  IN  put(counts, dep, [old EXCEPT !.repos = @ + 1])

\* for (const dep of deps), from the i-th on
RECURSIVE depsLoop(_, _, _, _)
depsLoop(ecosystem, deps, i, counts) ==
  IF i > Len(deps) THEN counts
  ELSE depsLoop(ecosystem, deps, i + 1, addTool(counts, ecosystem, deps[i]))

\* for (const [ecosystem, deps] of Object.entries(repo.dependencies || {})),
\* from the i-th on
RECURSIVE ecosystemsLoop(_, _, _)
ecosystemsLoop(dependencies, i, counts) ==
  IF i > Len(dependencies) THEN counts
  ELSE ecosystemsLoop(dependencies, i + 1,
                      depsLoop(dependencies[i].k, dependencies[i].v, 1, counts))

\* The body of the loop over analyzedRepos
aggregateRepo(agg, repo) ==
  IF repo.excluded THEN agg
  ELSE LET tallies == patternsLoop(repo.patterns, 1,
                              [patternCounts |-> agg.patternCounts,
                               frameworkCounts |-> agg.frameworkCounts])
       IN
       [languageCounts |-> languagesLoop(repo.languages, 1, agg.languageCounts),
        frameworkCounts |-> tallies.frameworkCounts,
        patternCounts |-> tallies.patternCounts,
        toolCounts |-> ecosystemsLoop(repo.dependencies, 1, agg.toolCounts),
        earliestCommit |->
          IF repo.git.firstCommit # 0 /\ repo.git.firstCommit < agg.earliestCommit
          THEN repo.git.firstCommit ELSE agg.earliestCommit,
        latestCommit |->
          IF repo.git.lastCommit # 0 /\ repo.git.lastCommit > agg.latestCommit
          THEN repo.git.lastCommit ELSE agg.latestCommit,
        totalCommits |-> agg.totalCommits + repo.git.commitCount]

\* for (const repo of analyzedRepos), from the i-th on
RECURSIVE reposLoop(_, _, _)
reposLoop(analyzedRepos, i, agg) ==
  IF i > Len(analyzedRepos) THEN agg
  ELSE reposLoop(analyzedRepos, i + 1, aggregateRepo(agg, analyzedRepos[i]))

\* for (const [key, data] of Object.entries(frameworkCounts)), from the i-th
\* on: profile.frameworks[data.name] = {...}
RECURSIVE frameworksLoop(_, _, _, _)
frameworksLoop(frameworkCounts, i, total, frameworks) ==
  IF i > Len(frameworkCounts) THEN frameworks
  ELSE LET e == frameworkCounts[i]
       IN  frameworksLoop(frameworkCounts, i + 1, total,
             put(frameworks, e.v.info.name,
                 [key |-> e.k, category |-> e.v.info.category, repoCount |-> e.v.repos,
                  proficiency |-> calculateProficiency(e.v.repos, total, e.v.info.weight)]))

\* LANGUAGE_SKILLS[name] || { level: 'language' }
languageInfo(name) ==
  IF name \in DOMAIN LANGUAGE_SKILLS THEN LANGUAGE_SKILLS[name]
  ELSE [level |-> "language", aliases |-> <<>>, parent |-> <<>>]

\* Math.round(days / 365)
roundYears(days) == (2 * days + 365) \div 730

max(a, b) == IF a >= b THEN a ELSE b

\* Object.entries(m)...slice(0, 5).map(([name, data]) => ({ name, ...data }))
topFive(entries) ==
  [i \in 1..(IF Len(entries) < 5 THEN Len(entries) ELSE 5) |->
     [name |-> entries[i].k] @@ entries[i].v]

\* buildSkillsProfile(analyzedRepos), called on day now
buildSkillsProfile(analyzedRepos, now) ==
  LET agg == reposLoop(analyzedRepos, 1,
                       [languageCounts |-> <<>>, frameworkCounts |-> <<>>,
                        patternCounts |-> <<>>, toolCounts |-> <<>>,
                        earliestCommit |-> now, latestCommit |-> 0, totalCommits |-> 0])
      total == Len(analyzedRepos)
      languages ==
        [i \in 1..Len(agg.languageCounts) |->
           LET name == agg.languageCounts[i].k
               data == agg.languageCounts[i].v
           IN  field(name, [fileCount |-> data.count, repoCount |-> data.repos,
                            proficiency |-> calculateProficiency(data.repos, total, 10)]
                           @@ languageInfo(name))]
      frameworks == frameworksLoop(agg.frameworkCounts, 1, total, <<>>)
      properLanguages == SelectSeq(languages, LAMBDA e : e.v.level = "language")
      significantTools ==
        LET used == SelectSeq(agg.toolCounts, LAMBDA e : e.v.repos >= 2)
            sorted == sortDescBy(used, [i \in 1..Len(used) |-> used[i].v.repos])
        IN  IF Len(sorted) <= 20 THEN sorted ELSE SubSeq(sorted, 1, 20)
      patterns == [i \in 1..Len(agg.patternCounts) |-> agg.patternCounts[i].k]
  IN  [languages |-> languages,
       frameworks |-> frameworks,
       tools |-> [i \in 1..Len(significantTools) |->
                    field(significantTools[i].k,
                          [ecosystem |-> significantTools[i].v.ecosystem,
                           repoCount |-> significantTools[i].v.repos])],
       patterns |-> patterns,
       domains |-> deriveDomains(patterns, frameworks),
       summary |->
         [totalRepos |-> total,
          totalCommits |-> agg.totalCommits,
          yearsActive |-> max(1, roundYears(agg.latestCommit - agg.earliestCommit)),
          topLanguages |->
            topFive(sortDescBy(properLanguages, repoCountsOf(properLanguages))),
          topFrameworks |-> topFive(sortDescBy(frameworks, repoCountsOf(frameworks)))]]

\* ------------------------------------------------------------ matcher

\* Array.prototype.includes for an array of strings
has(arr, x) == \E i \in 1..Len(arr) : arr[i] = x

\* Math.round(100 * matchedCount / requiredCount)
roundPercent(matchedCount, requiredCount) ==
  (200 * matchedCount + requiredCount) \div (2 * requiredCount)

\* A variant of hasSkill that compares the names as they are spelled
hasSkillCaseSensitive(matched, s) == \E i \in 1..Len(matched) : matched[i].name = s

\* hasSkill in the loop over jobSkills: matched.some(m => m.name.toLowerCase() === skill)
hasSkill(matched, s) == \E i \in 1..Len(matched) : toLowerCase(matched[i].name) = s

\* matchSkillsToJob(profile, job), the job a record written by normalizeJob
matchSkillsToJob(prof, job) ==
  LET skills == val(orElse(job.skills, Arr(<<>>)))
      jobSkills == [i \in 1..Len(skills) |-> toLowerCase(val(skills[i]))]
      jobDescription == toLowerCase(val(orElse(job.description, Str(<<>>))))
      allNames(name) ==
        <<toLowerCase(name)>> \o (IF name \in DOMAIN LANGUAGE_SKILLS
                                  THEN LANGUAGE_SKILLS[name].aliases ELSE <<>>)
      inSkills(name) == \E i \in 1..Len(allNames(name)) : has(jobSkills, allNames(name)[i])
      inDesc(name) ==
        \E i \in 1..Len(allNames(name)) : includes(jobDescription, allNames(name)[i])
      skill(e, type) == [name |-> e.k, type |-> type, proficiency |-> e.v.proficiency]
      languageMatched == SelectSeq(prof.languages, LAMBDA e : inSkills(e.k))
      languageBonus == SelectSeq(prof.languages, LAMBDA e : ~inSkills(e.k) /\ inDesc(e.k))
      frameworkMatched ==
        SelectSeq(prof.frameworks,
                  LAMBDA e : \/ has(jobSkills, toLowerCase(e.k))
                             \/ includes(jobDescription, toLowerCase(e.k)))
      matched == [i \in 1..Len(languageMatched) |-> skill(languageMatched[i], "language")]
                 \o [i \in 1..Len(frameworkMatched) |-> skill(frameworkMatched[i], "framework")]
      missing == SelectSeq(jobSkills, LAMBDA s : ~hasSkill(matched, s))
      requiredCount == IF Len(jobSkills) = 0 THEN 1 ELSE Len(jobSkills)
  IN  [score |-> roundPercent(Len(matched), requiredCount),
       matched |-> matched,
       missing |-> missing,
       bonus |-> [i \in 1..Len(languageBonus) |-> skill(languageBonus[i], "language")]]

min(a, b) == IF a <= b THEN a ELSE b

\* Whether the loop body throws a TypeError on a stored job: toLowerCase is
\* called on every skill, on a truthy description and, when the preferences
\* name locations, on a location that is neither null nor undefined; a value
\* that is no string has no such method.
matchThrows(job, prefs) ==
  \/ \E i \in 1..Len(val(job.skills)) : tag(val(job.skills)[i]) # "str"
  \/ truthy(job.description) /\ tag(job.description) # "str"
  \/ Len(prefs.locations) > 0 /\ ~isNullish(job.location) /\ tag(job.location) # "str"

\* A variant of isRemote that trusts the remote flag alone
isRemoteByFlag(job) == truthy(job.remote)

\* isRemote: job.remote || jobLoc.includes('remote')
isRemote(job) == truthy(job.remote) \/ includes(toLowerCase(val(job.location)), <<"r","e","m","o","t","e">>)

\* wantScore: ten for each matched entry whose name holds a wanted skill
wantScoreOf(match, prefs) ==
  LET wantMatches ==
        SelectSeq(match.matched,
                  LAMBDA m : \E i \in 1..Len(prefs.wantSkills) :
                               includes(toLowerCase(m.name), toLowerCase(prefs.wantSkills[i])))
  IN  IF Len(prefs.wantSkills) > 0 THEN Len(wantMatches) * 10 ELSE 0

\* A variant of avoidPenaltyOf that charges a job once, however many of its
\* skills are avoided
avoidPenaltyOnce(job, prefs) ==
  IF \E k \in 1..Len(val(job.skills)) : \E i \in 1..Len(prefs.avoidSkills) :
       includes(toLowerCase(val(val(job.skills)[k])), toLowerCase(prefs.avoidSkills[i]))
  THEN 15 ELSE 0

\* avoidPenalty: fifteen for each skill of the job that holds an avoided skill
avoidPenaltyOf(job, prefs) ==
  LET avoidMatches ==
        SelectSeq(val(job.skills),
                  LAMBDA s : \E i \in 1..Len(prefs.avoidSkills) :
                               includes(toLowerCase(val(s)), toLowerCase(prefs.avoidSkills[i])))
  IN  IF Len(prefs.avoidSkills) > 0 THEN Len(avoidMatches) * 15 ELSE 0

\* The body of the loop of matchJobsToProfile: the MatchResult of one job
matchOne(job, prof, prefs) ==
  LET match == matchSkillsToJob(prof, job)
      wantScore == wantScoreOf(match, prefs)
      avoidPenalty == avoidPenaltyOf(job, prefs)
      jobLoc == toLowerCase(val(job.location))
      locationMatch ==
        IF Len(prefs.locations) > 0
        THEN \E i \in 1..Len(prefs.locations) :
               IF toLowerCase(prefs.locations[i]) = <<"r","e","m","o","t","e">> THEN isRemote(job)
               ELSE includes(jobLoc, toLowerCase(prefs.locations[i]))
        ELSE TRUE
  IN  [job |-> job,
       score |-> max(0, min(100, match.score + wantScore - avoidPenalty)),
       baseScore |-> match.score,
       matchedSkills |-> match.matched,
       missingSkills |-> match.missing,
       bonusSkills |-> match.bonus,
       locationMatch |-> locationMatch,
       wantMatch |-> wantScore > 0,
       hasAvoid |-> avoidPenalty > 0]

\* matchJobsToProfile(jobs, profile, preferences)
matchJobsToProfile(jobList, prof, prefs) ==
  LET pushed == [i \in 1..Len(jobList) |-> matchOne(jobList[i], prof, prefs)]
  IN  sortDescBy(pushed, [i \in 1..Len(pushed) |-> pushed[i].score])

\* Variants of the filters, each with one condition left out or changed
isWantIgnoringAvoid(m) == m.wantMatch /\ m.score >= 50 /\ m.locationMatch
isQualifiedIgnoringAvoid(m) == m.score >= 50 /\ m.locationMatch /\ ~m.wantMatch
isStretchWithoutCeiling(m) == m.score >= 25 /\ m.locationMatch
isFilteredOnBoth(m) == ~m.locationMatch /\ m.hasAvoid

\* The four filters of categorizeMatches
isWant(m) == m.wantMatch /\ m.score >= 50 /\ m.locationMatch /\ ~m.hasAvoid
isQualified(m) == m.score >= 50 /\ m.locationMatch /\ ~m.wantMatch /\ ~m.hasAvoid
isStretch(m) == m.score >= 25 /\ m.score < 50 /\ m.locationMatch
isFiltered(m) == ~m.locationMatch \/ m.hasAvoid

\* categorizeMatches(matches)
categorizeMatches(ms) ==
  [want |-> SelectSeq(ms, isWant),
   qualified |-> SelectSeq(ms, isQualified),
   stretch |-> SelectSeq(ms, isStretch),
   filtered |-> SelectSeq(ms, isFiltered)]

\* ------------------------------------------------------------ inputs

MaxCalls == 2
MaxPayload == 2

\* Raw entries of a payload
eDev == Obj(<<field(kTitle, Str(<<"D","e","v">>)), field(kCompany, Str(<<"A","c","m","e">>)),
              field(kSkills, Arr(<<Str(<<"R","e","a","c","t">>), Str(<<"p","y","t","h","o","n">>)>>))>>)
eQa == Obj(<<field(kTitle, Str(<<"Q","A">>)), field(kCompany, Str(<<"B","e","t","a">>)),
             field(kLocation, Str(<<"R","e","m","o","t","e">>))>>)
eNoCompany == Obj(<<field(kTitle, Str(<<"D","e","v">>))>>)
eIdA == Obj(<<field(kId, Str(<<"x">>)), field(kTitle, Str(<<"O","p","s">>)), field(kCompany, Str(<<"A","c","m","e">>))>>)
eIdB == Obj(<<field(kId, Str(<<"x">>)), field(kTitle, Str(<<"D","e","v">>)), field(kCompany, Str(<<"B","e","t","a">>))>>)
eArrId == Obj(<<field(kId, Arr(<<Num(1)>>)), field(kTitle, Str(<<"D","e","v">>)),
                field(kCompany, Str(<<"A","c","m","e">>))>>)
eCollA == Obj(<<field(kTitle, Str(<<"B"," ","@">>)), field(kCompany, Str(<<"A">>))>>)
eCollB == Obj(<<field(kTitle, Str(<<"B","!","!">>)), field(kCompany, Str(<<"A">>))>>)
eNumTitle == Obj(<<field(kTitle, Num(5)), field(kCompany, Str(<<"A","c","m","e">>))>>)
eCommaSkills == Obj(<<field(kTitle, Str(<<"D","e","v">>)), field(kCompany, Str(<<"B","e","t","a">>)),
                      field(kSkills, Str(<<"r","e","a","c","t",","," ","P","y","t","h","o","n">>))>>)
eBlankTitle == Obj(<<field(kTitle, Str(<<" "," ">>)), field(kCompany, Str(<<"A","c","m","e">>))>>)
eSalary1 == Obj(<<field(kTitle, Str(<<"D","e","v">>)), field(kCompany, Str(<<"A","c","m","e">>)),
                  field(kSalary, Num(1))>>)
eSalary2 == Obj(<<field(kTitle, Str(<<"D","e","v">>)), field(kCompany, Str(<<"A","c","m","e">>)),
                  field(kSalary, Num(2))>>)

CoreEntries == {eDev, eQa, eNoCompany}

SeqsUpTo(S, n) == UNION {[1..k -> S] : k \in 0..n}

Payloads ==
  {Arr(p) : p \in SeqsUpTo(CoreEntries, MaxPayload)}
  \cup {Arr(<<eDev, eNoCompany, eQa>>), Arr(<<Null, eDev>>), Arr(<<Num(5), eDev>>),
        Arr(<<eIdA, eIdB>>), Arr(<<eArrId>>), Arr(<<eArrId, eArrId>>), Arr(<<eCollA, eCollB>>),
        Arr(<<eNumTitle>>), Arr(<<eCommaSkills>>), Arr(<<eBlankTitle>>),
        Arr(<<eSalary1, eSalary2>>),
        Obj(<<field(kJobs, Arr(<<eQa>>))>>), Obj(<<field(kJobs, Num(5))>>),
        Obj(<<field(kJobs, Str(<<"a","b">>))>>), Obj(<<>>), Null, Num(7)}

Missing == [k |-> "missing", v |-> Null]
Garbage == [k |-> "garbage", v |-> Null]
Json(v) == [k |-> "json", v |-> v]

FileContents == {Missing, Garbage} \cup {Json(v) : v \in Payloads}

NoCall == [kind |-> "none", error |-> "", added |-> 0, skipped |-> 0, errors |-> <<>>]

\* ------------------------------------------------------------ ingestion

\* A new input file is put in place, once the previous one has been ingested.
WriteFile(c) ==
  /\ calls < MaxCalls
  /\ result # NoCall \/ file = Missing
  /\ c # file
  /\ file' = c
  /\ result' = NoCall
  /\ UNCHANGED <<store, calls, buildVars, matchVars, tierVars,
               historyVars, screenVars, procVars>>

\* One call of ingestJobsFromFile on the input file.
Ingest ==
  /\ calls < MaxCalls
  /\ LET r == ingestJobsFromFile(file, store, calls + 1)
     IN  /\ result' = r.report
         /\ store' = IF r.saved THEN r.jobs ELSE store
  /\ calls' = calls + 1
  /\ UNCHANGED <<file, buildVars, matchVars, tierVars,
               historyVars, screenVars, procVars>>

IngestNext == (\E c \in FileContents : WriteFile(c)) \/ Ingest

\* ------------------------------------------------------------ building

MaxRepos == 3

\* The day buildSkillsProfile runs (new Date())
Today == 4000

rJs == [excluded |-> FALSE,
        git |-> [firstCommit |-> 1000, lastCommit |-> 3000, commitCount |-> 5],
        languages |-> <<[name |-> <<"J","a","v","a","S","c","r","i","p","t">>, count |-> 10], [name |-> <<"C","S","S">>, count |-> 2]>>,
        patterns |-> <<"react", "testing">>,
        dependencies |-> <<field("npm", <<"react", "lodash">>)>>]
rPy == [excluded |-> FALSE,
        git |-> [firstCommit |-> 2000, lastCommit |-> 3900, commitCount |-> 7],
        languages |-> <<[name |-> <<"P","y","t","h","o","n">>, count |-> 5], [name |-> <<"J","a","v","a","S","c","r","i","p","t">>, count |-> 1]>>,
        patterns |-> <<"docker", "testing", "monorepo">>,
        dependencies |-> <<field("python", <<"flask">>), field("npm", <<"lodash">>)>>]
rTs == [excluded |-> FALSE,
        git |-> [firstCommit |-> 0, lastCommit |-> 0, commitCount |-> 0],
        languages |-> <<[name |-> <<"T","y","p","e","S","c","r","i","p","t">>, count |-> 3]>>,
        patterns |-> <<"typescript", "react">>,
        dependencies |-> <<field("npm", <<"react">>)>>]
rGoExcluded ==
       [excluded |-> TRUE,
        git |-> [firstCommit |-> 500, lastCommit |-> 3950, commitCount |-> 9],
        languages |-> <<[name |-> <<"G","o">>, count |-> 2], [name |-> <<"P","y","t","h","o","n">>, count |-> 1]>>,
        patterns |-> <<"kubernetes">>,
        dependencies |-> <<field("npm", <<"lodash">>)>>]

rPolyglot ==
       [excluded |-> FALSE,
        git |-> [firstCommit |-> 3000, lastCommit |-> 3100, commitCount |-> 2],
        languages |-> <<[name |-> <<"H","T","M","L">>, count |-> 9], [name |-> <<"R","u","s","t">>, count |-> 4],
                        [name |-> <<"R","u","b","y">>, count |-> 3], [name |-> <<"J","a","v","a">>, count |-> 2],
                        [name |-> <<"K","o","t","l","i","n">>, count |-> 1], [name |-> <<"S","w","i","f","t">>, count |-> 1],
                        [name |-> <<"P","H","P">>, count |-> 1]>>,
        patterns |-> <<"vue", "angular", "svelte", "nextjs", "nuxt", "gatsby">>,
        dependencies |-> <<field("npm", <<"redis">>), field("python", <<"redis", "flask">>)>>]

Repos == {rJs, rPy, rTs, rGoExcluded, rPolyglot}

\* The orderings of a sequence
orderings(s) == {[i \in 1..Len(s) |-> s[p[i]]] : p \in Permutations(1..Len(s))}

included(s) == SelectSeq(s, LAMBDA r : ~r.excluded)

\* handleAnalyze: the profile of all analyzed repositories
Build ==
  /\ profile = <<>>
  /\ profile' = <<buildSkillsProfile(analyzed, Today)>>
  /\ UNCHANGED <<analyzed, permuted, profilePermuted, profileIncluded, ingestVars, matchVars, tierVars,
               historyVars, screenVars, procVars>>

\* The same call on the other ordering
BuildPermuted ==
  /\ profilePermuted = <<>>
  /\ profilePermuted' = <<buildSkillsProfile(permuted, Today)>>
  /\ UNCHANGED <<analyzed, permuted, profile, profileIncluded, ingestVars, matchVars, tierVars,
               historyVars, screenVars, procVars>>

\* finishAnalysis: the profile of the repositories left after the excluded
\* ones are filtered out, built when any is left
BuildIncluded ==
  /\ profileIncluded = <<>>
  /\ included(analyzed) # <<>>
  /\ profileIncluded' = <<buildSkillsProfile(included(analyzed), Today)>>
  /\ UNCHANGED <<analyzed, permuted, profile, profilePermuted, ingestVars, matchVars, tierVars,
               historyVars, screenVars, procVars>>

BuildNext == Build \/ BuildPermuted \/ BuildIncluded

\* ------------------------------------------------------------ matching

MaxJobs == 2

\* Raw entries, stored through normalizeJob
jFull == Obj(<<field(kTitle, Str(<<"D","e","v">>)), field(kCompany, Str(<<"A","c","m","e">>)),
               field(kSkills, Arr(<<Str(<<"R","e","a","c","t">>), Str(<<"p","y","t","h","o","n">>)>>)),
               field(kLocation, Str(<<"R","e","m","o","t","e",","," ","U","S">>))>>)
jOver == Obj(<<field(kTitle, Str(<<"O","p","s">>)), field(kCompany, Str(<<"A","c","m","e">>)),
               field(kSkills, Arr(<<Str(<<"r","e","a","c","t">>)>>)),
               field(kDescription, Str(<<"R","e","a","c","t"," ","o","n"," ","D","o","c","k","e","r",","," ","i","n"," ","J","a","v","a","S","c","r","i","p","t">>)),
               field(kLocation, Str(<<"B","e","r","l","i","n">>))>>)
jNoSkills == Obj(<<field(kTitle, Str(<<"Q","A">>)), field(kCompany, Str(<<"B","e","t","a">>)),
                   field(kDescription, Str(<<"t","e","s","t","i","n","g"," ","w","i","t","h"," ","d","o","c","k","e","r">>)),
                   field(kRemote, Bool(TRUE))>>)
jHalf == Obj(<<field(kTitle, Str(<<"W","e","b">>)), field(kCompany, Str(<<"B","e","t","a">>)),
               field(kSkills, Arr(<<Str(<<"j","s">>), Str(<<"p","h","p">>)>>)),
               field(kLocation, Str(<<"R","e","m","o","t","e">>))>>)
jThird == Obj(<<field(kTitle, Str(<<"L","e","a","d">>)), field(kCompany, Str(<<"B","e","t","a">>)),
                field(kSkills, Arr(<<Str(<<"r","e","a","c","t">>), Str(<<"p","h","p">>), Str(<<"c","o","b","o","l">>)>>)),
                field(kDescription, Str(<<"D","o","c","k","e","r",","," ","t","e","s","t","i","n","g",","," ","T","y","p","e","S","c","r","i","p","t">>)),
                field(kLocation, Str(<<"B","e","r","l","i","n">>))>>)
jNumDescription == Obj(<<field(kTitle, Str(<<"D","e","v">>)), field(kCompany, Str(<<"G","a","m","m","a">>)),
                         field(kDescription, Num(5))>>)
jRemoteText == Obj(<<field(kTitle, Str(<<"S","R","E">>)), field(kCompany, Str(<<"G","a","m","m","a">>)),
                     field(kSkills, Arr(<<Str(<<"g","o","l","a","n","g">>)>>)),
                     field(kLocation, Str(<<"R","e","m","o","t","e"," ","(","E","U",")">>)),
                     field(kRemote, Bool(FALSE))>>)
jRemoteThird == Obj(<<field(kTitle, Str(<<"F","r","o","n","t">>)), field(kCompany, Str(<<"D","e","l","t","a">>)),
                      field(kSkills, Arr(<<Str(<<"r","e","a","c","t">>), Str(<<"p","h","p">>), Str(<<"c","o","b","o","l">>)>>)),
                      field(kRemote, Bool(TRUE))>>)
jNone == Obj(<<field(kTitle, Str(<<"C","o","b","o","l">>)), field(kCompany, Str(<<"B","a","n","k">>)),
               field(kSkills, Arr(<<Str(<<"c","o","b","o","l">>)>>)),
               field(kLocation, Str(<<"B","e","r","l","i","n">>))>>)

JobPool == {normalizeJob(j, 1).job : j \in {jFull, jOver, jNoSkills, jHalf, jThird, jNone, jNumDescription, jRemoteText,
                                           jRemoteThird}}

SkillsProfiles ==
  {buildSkillsProfile(r, Today) : r \in {<<>>, <<rJs>>, <<rJs, rPy, rTs>>, <<rPy, rGoExcluded>>}}

NoPreferences == [wantSkills |-> <<>>, avoidSkills |-> <<>>, locations |-> <<>>]

Preferences ==
  {NoPreferences,
   [wantSkills |-> <<<<"R","e","a","c","t">>>>, avoidSkills |-> <<>>, locations |-> <<<<"R","e","m","o","t","e">>>>],
   [wantSkills |-> <<<<"s","c","r","i","p","t">>, <<"R","e","a","c","t">>>>, avoidSkills |-> <<<<"P","H","P">>>>, locations |-> <<>>],
   [wantSkills |-> <<>>, avoidSkills |-> <<<<"c","o","b","o","l">>, <<"p","h","p">>>>, locations |-> <<<<"b","e","r","l","i","n">>, <<"p","a","r","i","s">>>>]}

\* matchJobsToProfile(jobs, profile, config.preferences)
Match ==
  /\ matches = <<>>
  /\ ~matchThrew
  /\ IF \E i \in 1..Len(storedJobs) : matchThrows(storedJobs[i], preferences)
     THEN matchThrew' = TRUE /\ matches' = matches
     ELSE /\ matches' = <<matchJobsToProfile(storedJobs, skillsProfile, preferences)>>
          /\ matchThrew' = matchThrew
  /\ UNCHANGED <<storedJobs, skillsProfile, preferences, categorized, ingestVars, buildVars, tierVars,
               historyVars, screenVars, procVars>>

\* categorizeMatches(matches)
Categorize ==
  /\ matches # <<>>
  /\ categorized = <<>>
  /\ categorized' = <<categorizeMatches(matches[1])>>
  /\ UNCHANGED <<storedJobs, skillsProfile, preferences, matches, matchThrew, ingestVars, buildVars, tierVars,
               historyVars, screenVars, procVars>>

MatchNext == Match \/ Categorize

\* ------------------------------------------------------------ proficiency

MaxTotal == 10

\* The weights calculateProficiency is called with, in tenths: 1 for a
\* language, the table's weight for a framework
Weights == {10} \cup {FRAMEWORK_CATEGORIES[p].weight : p \in DOMAIN FRAMEWORK_CATEGORIES}

\* calculateProficiency(data.repos, analyzedRepos.length, weight)
Calculate ==
  /\ tier = <<>>
  /\ tier' = <<calculateProficiency(tierCount, tierTotal, tierWeight)>>
  /\ UNCHANGED <<tierTotal, tierWeight, tierCount, tierCountMore, tierMore,
                 ingestVars, buildVars, matchVars,
                 historyVars, screenVars, procVars>>

\* The same call for the larger repoCount
CalculateMore ==
  /\ tierMore = <<>>
  /\ tierMore' = <<calculateProficiency(tierCountMore, tierTotal, tierWeight)>>
  /\ UNCHANGED <<tierTotal, tierWeight, tierCount, tierCountMore, tier,
                 ingestVars, buildVars, matchVars,
                 historyVars, screenVars, procVars>>

ProficiencyNext == Calculate \/ CalculateMore


\* ------------------------------------------------------------ history of a repository

\* Date.now(), in hours
HistoryNow == 2405

\* What one execSync call does: the command exits with 0 and prints out, or it
\* exits with another status and execSync throws.  A date is printed as
\* <<the hour it names>>; the other outputs are the printed line without its end.
ran(out) == [ok |-> TRUE, out |-> out]
failed == [ok |-> FALSE, out |-> <<>>]

\* A pipeline ends in head, whose exit status is the pipeline's: when git
\* fails in it nothing is printed and execSync does not throw.
piped(run) == IF run.ok THEN run.out ELSE <<>>

\* The value of the decimal digits a text starts with, up to its i-th character
RECURSIVE digitsValue(_, _)
digitsValue(s, i) ==
  IF i = 0 THEN 0 ELSE 10 * digitsValue(s, i - 1) + (charCodeAt[s[i]] - 48)

leadingDigits(s) ==
  LET isDigit(c) == charCodeAt[c] \in 48..57
      stops == {i \in 1..Len(s) : ~isDigit(s[i])}
  IN  IF stops = {} THEN Len(s) ELSE (CHOOSE i \in stops : \A j \in stops : i <= j) - 1

\* parseInt(s, 10) of a text that starts with a digit
parseInt(s) == digitsValue(s, leadingDigits(s))

\* parseInt(s, 10) || 0: NaN, for a text that starts with no digit, gives 0
parseIntOrZero(s) == IF leadingDigits(s) = 0 THEN 0 ELSE parseInt(s)

\* Math.floor((Date.now() - new Date(lastCommit).getTime()) / (1000 * 60 * 60 * 24))
daysSince(lastCommit, now) == (now - lastCommit[1]) \div 24

\* freshness: stale beyond 90 days, aging beyond 30
freshnessOf(daysSinceCommit) ==
  IF daysSinceCommit > 90 THEN "stale"
  ELSE IF daysSinceCommit > 30 THEN "aging"
  ELSE "fresh"

\* What the catch block returns
HistoryUnavailable ==
  [error |-> "Not a git repository or git history unavailable",
   lastCommit |-> Null,
   commitCount |-> 0,
   freshness |-> "unknown"]

\* The lines of the author listing that read as a count and a name
authorsOf(lines) ==
  LET matching == SelectSeq(lines, LAMBDA l : l.count # <<>> /\ l.name # <<>>)
  IN  [i \in 1..Len(matching) |->
         [name |-> matching[i].name, commits |-> parseInt(matching[i].count)]]

\* analyzeGitHistory(repoPath), the repository making each invocation behave
\* as runs says.  The log, the count and the branch query stand directly in the
\* outer try; the remote and the upstream query each in a try of their own.
analyzeGitHistory(runs, now) ==
  LET hasRemote == runs.remote.ok /\ Len(trim(runs.remote.out)) > 0
      remoteBehind ==
        IF hasRemote /\ runs.upstream.ok THEN parseIntOrZero(trim(runs.upstream.out)) ELSE 0
      daysSinceCommit == daysSince(runs.lastCommit.out, now)
  IN  IF ~runs.lastCommit.ok THEN HistoryUnavailable
      ELSE IF ~runs.commitCount.ok THEN HistoryUnavailable
      ELSE IF ~runs.currentBranch.ok THEN HistoryUnavailable
      ELSE [lastCommit |-> runs.lastCommit.out,
            firstCommit |-> piped(runs.firstCommit),
            commitCount |-> parseInt(trim(runs.commitCount.out)),
            currentBranch |-> trim(runs.currentBranch.out),
            hasRemote |-> hasRemote,
            remoteBehind |-> remoteBehind,
            daysSinceCommit |-> daysSinceCommit,
            freshness |-> freshnessOf(daysSinceCommit),
            authors |-> authorsOf(piped(runs.authors))]

\* The hours a last commit may bear: this hour, the last hour of the 30th and
\* the first of the 31st day back, the same around the 90th day, and an hour
\* yet to come on a clock that runs ahead
CommitHours ==
  {HistoryNow - a : a \in {0, 30 * 24 + 23, 31 * 24, 90 * 24 + 23, 91 * 24, 0 - 3}}

AuthorLine(count, name) == [count |-> count, name |-> name]

\* What the invocations may do in a directory
GitRuns ==
  [lastCommit : {failed} \cup {ran(<<h>>) : h \in CommitHours},
   firstCommit : {failed, ran(<<HistoryNow - 2400>>)},
   commitCount : {failed, ran(<<"7">>)},
   currentBranch : {failed, ran(<<"m","a","i","n">>), ran(<<>>)},
   remote : {failed, ran(<<>>), ran(<<"o","r","i","g","i","n">>)},
   upstream : {failed, ran(<<"3">>), ran(<<>>)},
   authors : {failed, ran(<<AuthorLine(<<"3">>, <<"A","n","n">>), AuthorLine(<<>>, <<>>)>>)}]

\* A directory that is no repository: every invocation fails
NoRepository ==
  [lastCommit |-> failed, firstCommit |-> failed, commitCount |-> failed,
   currentBranch |-> failed, remote |-> failed, upstream |-> failed, authors |-> failed]

\* analyzeGitHistory(repoPath)
AnalyzeHistory ==
  /\ gitHistory = <<>>
  /\ gitHistory' = <<analyzeGitHistory(gitRuns, HistoryNow)>>
  /\ UNCHANGED <<gitRuns, ingestVars, buildVars, matchVars, tierVars, screenVars, procVars>>

HistoryNext == AnalyzeHistory

\* ------------------------------------------------------------ the analyze screen

MaxDiscovered == 3

\* The analyses analyzeRepo returns for the discovered repositories
ScreenPool == {rJs, rPy}

\* finishAnalysis(), run by the handler of a key press: analyzedRepos is the
\* value of the render the handler was created in, without the update the
\* same handler has just queued with setAnalyzedRepos.
finishAnalysis(action) ==
  LET includedRepos == included(screenAnalyzed)
  IN  /\ IF includedRepos # <<>>
         THEN /\ storeSkills' = <<buildSkillsProfile(includedRepos, Today)>>
              /\ storeRepos' = <<screenAnalyzed>>
         ELSE UNCHANGED <<storeSkills, storeRepos>>
      /\ screenState' = "complete"
      /\ endedBy' = action

\* goToNext()
goToNext(action) ==
  IF screenIndex + 1 > Len(screenRepos)
  THEN finishAnalysis(action) /\ screenIndex' = screenIndex
  ELSE /\ screenIndex' = screenIndex + 1
       /\ UNCHANGED <<screenState, storeSkills, storeRepos, endedBy>>

\* handleAction('include' | 'exclude' | 'skip') on a key press while
\* reviewing, and the render that follows it, which applies the queued update
\* of analyzedRepos
handleAction(action) ==
  /\ screenState = "reviewing"
  /\ screenAnalyzed' =
       IF action = "skip" THEN screenAnalyzed
       ELSE Append(screenAnalyzed,
                   [screenRepos[screenIndex] EXCEPT !.excluded = (action = "exclude")])
  /\ goToNext(action)
  /\ UNCHANGED <<screenRepos, ingestVars, buildVars, matchVars, tierVars, historyVars, procVars>>

\* handleAction('finish')
Finish ==
  /\ screenState = "reviewing"
  /\ finishAnalysis("finish")
  /\ UNCHANGED <<screenRepos, screenIndex, screenAnalyzed,
                 ingestVars, buildVars, matchVars, tierVars, historyVars, procVars>>

\* handleAction('back'): navigate('welcome')
Back ==
  /\ screenState = "reviewing"
  /\ screenState' = "welcome"
  /\ UNCHANGED <<screenRepos, screenIndex, screenAnalyzed, storeSkills, storeRepos, endedBy,
                 ingestVars, buildVars, matchVars, tierVars, historyVars, procVars>>

ScreenNext ==
  \/ \E action \in {"include", "exclude", "skip"} : handleAction(action)
  \/ Finish
  \/ Back

\* ------------------------------------------------------------ two processes

\* Two processes, each making one call of ingestJobsFromFile on a file of its own
Procs == {1, 2}

\* The input files of the processes
ProcFiles ==
  {Missing, Json(Arr(<<eDev>>)), Json(Arr(<<eQa>>)), Json(Arr(<<eDev, eQa>>)),
   Json(Arr(<<eNoCompany>>))}

\* What jobs.json may hold when the processes start
ProcStores == {<<>>, <<normalizeJob(eIdA, 0).job>>}

\* The call of process p up to loadJobs(): a file that is missing makes the
\* call throw before; otherwise existingJobs is what jobs.json holds now.
Load(p) ==
  /\ procAt[p] = "start"
  /\ IF procFile[p].k # "json"
     THEN /\ procReport' = [procReport EXCEPT ![p] = ingestJobsFromFile(procFile[p], store, 1).report]
          /\ procAt' = [procAt EXCEPT ![p] = "done"]
          /\ UNCHANGED <<procLoaded, overlapped>>
     ELSE /\ procLoaded' = [procLoaded EXCEPT ![p] = loadJobs(store)]
          /\ procAt' = [procAt EXCEPT ![p] = "loaded"]
          /\ overlapped' = (overlapped \/ \E q \in Procs : q # p /\ procAt[q] = "loaded")
          /\ UNCHANGED procReport
  /\ UNCHANGED <<procFile, ingestVars, buildVars, matchVars, tierVars, historyVars, screenVars>>

\* The rest of the call: the loop over rawJobs on the existingJobs loaded
\* before, then saveJobs(existingJobs), which rewrites jobs.json as a whole
Save(p) ==
  /\ procAt[p] = "loaded"
  /\ LET r == ingestJobsFromFile(procFile[p], procLoaded[p], 1)
     IN  /\ procReport' = [procReport EXCEPT ![p] = r.report]
         /\ store' = IF r.saved THEN r.jobs ELSE store
  /\ procAt' = [procAt EXCEPT ![p] = "done"]
  /\ UNCHANGED <<procFile, procLoaded, overlapped, file, result, calls,
                 buildVars, matchVars, tierVars, historyVars, screenVars>>

ProcsNext == \E p \in Procs : Load(p) \/ Save(p)
\* ------------------------------------------------------------ specifications

\* Each specification starts the part of the program it is about and leaves
\* the rest of the state as it is before anything has run.

IngestInit ==
  /\ file = Missing
  /\ store = <<>>
  /\ result = NoCall
  /\ calls = 0
  /\ analyzed = <<>>
  /\ permuted = <<>>
  /\ profile = <<>>
  /\ profilePermuted = <<>>
  /\ profileIncluded = <<>>
  /\ storedJobs = <<>>
  /\ skillsProfile = buildSkillsProfile(<<>>, Today)
  /\ preferences = NoPreferences
  /\ matches = <<>>
  /\ categorized = <<>>
  /\ matchThrew = FALSE
  /\ tierTotal = 1
  /\ tierWeight = 10
  /\ tierCount = 0
  /\ tierCountMore = 0
  /\ tier = <<>>
  /\ tierMore = <<>>
  /\ gitRuns = NoRepository
  /\ gitHistory = <<>>
  /\ screenRepos = <<>>
  /\ screenIndex = 1
  /\ screenAnalyzed = <<>>
  /\ screenState = "discovering"
  /\ storeSkills = <<>>
  /\ storeRepos = <<>>
  /\ endedBy = "none"
  /\ procFile = [p \in Procs |-> Missing]
  /\ procAt = [p \in Procs |-> "start"]
  /\ procLoaded = [p \in Procs |-> <<>>]
  /\ procReport = [p \in Procs |-> NoCall]
  /\ overlapped = FALSE

BuildInit ==
  /\ analyzed \in SeqsUpTo(Repos, MaxRepos)
  /\ permuted \in orderings(analyzed)
  /\ file = Missing
  /\ store = <<>>
  /\ result = NoCall
  /\ calls = 0
  /\ profile = <<>>
  /\ profilePermuted = <<>>
  /\ profileIncluded = <<>>
  /\ storedJobs = <<>>
  /\ skillsProfile = buildSkillsProfile(<<>>, Today)
  /\ preferences = NoPreferences
  /\ matches = <<>>
  /\ categorized = <<>>
  /\ matchThrew = FALSE
  /\ tierTotal = 1
  /\ tierWeight = 10
  /\ tierCount = 0
  /\ tierCountMore = 0
  /\ tier = <<>>
  /\ tierMore = <<>>
  /\ gitRuns = NoRepository
  /\ gitHistory = <<>>
  /\ screenRepos = <<>>
  /\ screenIndex = 1
  /\ screenAnalyzed = <<>>
  /\ screenState = "discovering"
  /\ storeSkills = <<>>
  /\ storeRepos = <<>>
  /\ endedBy = "none"
  /\ procFile = [p \in Procs |-> Missing]
  /\ procAt = [p \in Procs |-> "start"]
  /\ procLoaded = [p \in Procs |-> <<>>]
  /\ procReport = [p \in Procs |-> NoCall]
  /\ overlapped = FALSE

MatchInit ==
  /\ storedJobs \in SeqsUpTo(JobPool, MaxJobs)
  /\ skillsProfile \in SkillsProfiles
  /\ preferences \in Preferences
  /\ file = Missing
  /\ store = <<>>
  /\ result = NoCall
  /\ calls = 0
  /\ analyzed = <<>>
  /\ permuted = <<>>
  /\ profile = <<>>
  /\ profilePermuted = <<>>
  /\ profileIncluded = <<>>
  /\ matches = <<>>
  /\ categorized = <<>>
  /\ matchThrew = FALSE
  /\ tierTotal = 1
  /\ tierWeight = 10
  /\ tierCount = 0
  /\ tierCountMore = 0
  /\ tier = <<>>
  /\ tierMore = <<>>
  /\ gitRuns = NoRepository
  /\ gitHistory = <<>>
  /\ screenRepos = <<>>
  /\ screenIndex = 1
  /\ screenAnalyzed = <<>>
  /\ screenState = "discovering"
  /\ storeSkills = <<>>
  /\ storeRepos = <<>>
  /\ endedBy = "none"
  /\ procFile = [p \in Procs |-> Missing]
  /\ procAt = [p \in Procs |-> "start"]
  /\ procLoaded = [p \in Procs |-> <<>>]
  /\ procReport = [p \in Procs |-> NoCall]
  /\ overlapped = FALSE

ProficiencyInit ==
  /\ tierTotal \in 1..MaxTotal
  /\ tierWeight \in Weights
  /\ tierCount \in 0..tierTotal
  /\ tierCountMore \in tierCount..tierTotal
  /\ file = Missing
  /\ store = <<>>
  /\ result = NoCall
  /\ calls = 0
  /\ analyzed = <<>>
  /\ permuted = <<>>
  /\ profile = <<>>
  /\ profilePermuted = <<>>
  /\ profileIncluded = <<>>
  /\ storedJobs = <<>>
  /\ skillsProfile = buildSkillsProfile(<<>>, Today)
  /\ preferences = NoPreferences
  /\ matches = <<>>
  /\ categorized = <<>>
  /\ matchThrew = FALSE
  /\ tier = <<>>
  /\ tierMore = <<>>
  /\ gitRuns = NoRepository
  /\ gitHistory = <<>>
  /\ screenRepos = <<>>
  /\ screenIndex = 1
  /\ screenAnalyzed = <<>>
  /\ screenState = "discovering"
  /\ storeSkills = <<>>
  /\ storeRepos = <<>>
  /\ endedBy = "none"
  /\ procFile = [p \in Procs |-> Missing]
  /\ procAt = [p \in Procs |-> "start"]
  /\ procLoaded = [p \in Procs |-> <<>>]
  /\ procReport = [p \in Procs |-> NoCall]
  /\ overlapped = FALSE

HistoryInit ==
  /\ gitRuns \in GitRuns
  /\ file = Missing
  /\ store = <<>>
  /\ result = NoCall
  /\ calls = 0
  /\ analyzed = <<>>
  /\ permuted = <<>>
  /\ profile = <<>>
  /\ profilePermuted = <<>>
  /\ profileIncluded = <<>>
  /\ storedJobs = <<>>
  /\ skillsProfile = buildSkillsProfile(<<>>, Today)
  /\ preferences = NoPreferences
  /\ matches = <<>>
  /\ categorized = <<>>
  /\ matchThrew = FALSE
  /\ tierTotal = 1
  /\ tierWeight = 10
  /\ tierCount = 0
  /\ tierCountMore = 0
  /\ tier = <<>>
  /\ tierMore = <<>>
  /\ gitHistory = <<>>
  /\ screenRepos = <<>>
  /\ screenIndex = 1
  /\ screenAnalyzed = <<>>
  /\ screenState = "discovering"
  /\ storeSkills = <<>>
  /\ storeRepos = <<>>
  /\ endedBy = "none"
  /\ procFile = [p \in Procs |-> Missing]
  /\ procAt = [p \in Procs |-> "start"]
  /\ procLoaded = [p \in Procs |-> <<>>]
  /\ procReport = [p \in Procs |-> NoCall]
  /\ overlapped = FALSE

ScreenInit ==
  /\ screenRepos \in SeqsUpTo(ScreenPool, MaxDiscovered)
  /\ screenState = IF Len(screenRepos) > 0 THEN "reviewing" ELSE "complete"
  /\ file = Missing
  /\ store = <<>>
  /\ result = NoCall
  /\ calls = 0
  /\ analyzed = <<>>
  /\ permuted = <<>>
  /\ profile = <<>>
  /\ profilePermuted = <<>>
  /\ profileIncluded = <<>>
  /\ storedJobs = <<>>
  /\ skillsProfile = buildSkillsProfile(<<>>, Today)
  /\ preferences = NoPreferences
  /\ matches = <<>>
  /\ categorized = <<>>
  /\ matchThrew = FALSE
  /\ tierTotal = 1
  /\ tierWeight = 10
  /\ tierCount = 0
  /\ tierCountMore = 0
  /\ tier = <<>>
  /\ tierMore = <<>>
  /\ gitRuns = NoRepository
  /\ gitHistory = <<>>
  /\ screenIndex = 1
  /\ screenAnalyzed = <<>>
  /\ storeSkills = <<>>
  /\ storeRepos = <<>>
  /\ endedBy = "none"
  /\ procFile = [p \in Procs |-> Missing]
  /\ procAt = [p \in Procs |-> "start"]
  /\ procLoaded = [p \in Procs |-> <<>>]
  /\ procReport = [p \in Procs |-> NoCall]
  /\ overlapped = FALSE

ProcsInit ==
  /\ store \in ProcStores
  /\ procFile \in [Procs -> ProcFiles]
  /\ file = Missing
  /\ result = NoCall
  /\ calls = 0
  /\ analyzed = <<>>
  /\ permuted = <<>>
  /\ profile = <<>>
  /\ profilePermuted = <<>>
  /\ profileIncluded = <<>>
  /\ storedJobs = <<>>
  /\ skillsProfile = buildSkillsProfile(<<>>, Today)
  /\ preferences = NoPreferences
  /\ matches = <<>>
  /\ categorized = <<>>
  /\ matchThrew = FALSE
  /\ tierTotal = 1
  /\ tierWeight = 10
  /\ tierCount = 0
  /\ tierCountMore = 0
  /\ tier = <<>>
  /\ tierMore = <<>>
  /\ gitRuns = NoRepository
  /\ gitHistory = <<>>
  /\ screenRepos = <<>>
  /\ screenIndex = 1
  /\ screenAnalyzed = <<>>
  /\ screenState = "discovering"
  /\ storeSkills = <<>>
  /\ storeRepos = <<>>
  /\ endedBy = "none"
  /\ procAt = [p \in Procs |-> "start"]
  /\ procLoaded = [p \in Procs |-> <<>>]
  /\ procReport = [p \in Procs |-> NoCall]
  /\ overlapped = FALSE

SpecIngest == IngestInit /\ [][IngestNext]_vars

SpecBuild == BuildInit /\ [][BuildNext]_vars

SpecMatch == MatchInit /\ [][MatchNext]_vars

SpecProficiency == ProficiencyInit /\ [][ProficiencyNext]_vars

SpecHistory == HistoryInit /\ [][HistoryNext]_vars

SpecScreen == ScreenInit /\ [][ScreenNext]_vars

SpecProcs == ProcsInit /\ [][ProcsNext]_vars

\* ------------------------------------------------------------ ingestion claims

\* The raw entries of a payload that is a top-level array or an object with a
\* jobs array; none for any other content.
payloadArray(f) ==
  IF f.k # "json" THEN <<>>
  ELSE IF tag(f.v) = "arr" THEN val(f.v)
  ELSE IF tag(get(f.v, kJobs)) = "arr" THEN val(get(f.v, kJobs))
  ELSE <<>>

isArrayPayload(f) ==
  f.k = "json" /\ (tag(f.v) = "arr" \/ tag(get(f.v, kJobs)) = "arr")

\* An entry that passes validation: an object with truthy title and company
\* whose skills, if any, are an array.
validEntry(e) == ~isNullish(e) /\ validateJob(e).valid

companyTitle(e) == <<get(e, kCompany), get(e, kTitle)>>

\* A payload of valid entries with pairwise distinct company+title
distinctValid(f) ==
  /\ isArrayPayload(f)
  /\ \A i \in 1..Len(payloadArray(f)) : validEntry(payloadArray(f)[i])
  /\ \A i, j \in 1..Len(payloadArray(f)) :
       i # j => companyTitle(payloadArray(f)[i]) # companyTitle(payloadArray(f)[j])

\* No entry of the payload is already stored: no stored record has an entry's
\* company and title.
noneStored(f, jobs) ==
  \A i \in 1..Len(payloadArray(f)) : \A j \in 1..Len(jobs) :
    <<jobs[j].company, jobs[j].title>> # companyTitle(payloadArray(f)[i])

IngestStep == calls' = calls + 1

\* C1: the persisted job collection never contains two records with the same id.
C1_NoDuplicateIds ==
  \A i, j \in 1..Len(store) : i # j => store[i].id # store[j].id

\* C1, restricted to ids that are strings, numbers or booleans.
NoDuplicatePrimitiveIds ==
  \A i, j \in 1..Len(store) :
    (i # j /\ isPrimitive(store[i].id)) => store[i].id # store[j].id

\* C2: a first call on N valid entries with pairwise distinct company+title,
\* none of them stored, reports added = N and skipped = 0; the call that
\* immediately follows it on the same payload reports added = 0 and
\* skipped = N and leaves the persisted collection unchanged.
C2_Idempotent ==
  [][/\ (IngestStep /\ distinctValid(file) /\ noneStored(file, store))
          => /\ result'.kind = "report"
             /\ result'.added = Len(payloadArray(file))
             /\ result'.skipped = 0
     /\ (IngestStep /\ distinctValid(file) /\ result.kind = "report"
           /\ result.added = Len(payloadArray(file)))
          => /\ result'.kind = "report"
             /\ result'.added = 0
             /\ result'.skipped = Len(payloadArray(file))
             /\ store' = store]_vars

\* C9: on a payload array a call returns a report; every entry that fails
\* validation (a null or non-object element included) is reported once under
\* errors and not stored, and every valid entry is added or skipped.
C9_InvalidEntriesNeverAbort ==
  (result.kind # "none" /\ isArrayPayload(file)) =>
    LET raw == payloadArray(file)
        bad == SelectSeq(raw, LAMBDA e : ~validEntry(e))
    IN  /\ result.kind = "report"
        /\ [i \in 1..Len(result.errors) |-> result.errors[i].job] = bad
        /\ result.added + result.skipped = Len(raw) - Len(bad)

\* Scenario E of C9: a batch of three with one entry missing its company.
C9_ScenarioE ==
  (result.kind # "none" /\ file = Json(Arr(<<eDev, eNoCompany, eQa>>)) /\ calls = 1) =>
    /\ result.kind = "report"
    /\ result.added = 2
    /\ Len(result.errors) = 1

\* C10: a call throws only when the input file is missing or is not parsable
\* JSON.
C10_ThrowsOnlyOnUnreadableInput ==
  result.kind = "threw" => file.k \in {"missing", "garbage"}

\* C10, the part about the store: a call that throws leaves the persisted
\* collection unchanged.
ThrowLeavesStoreUnchanged ==
  [][(IngestStep /\ result'.kind = "threw") => store' = store]_vars

\* ------------------------------------------------------------ matching: properties

inBucket(bucket, m) == \E k \in 1..Len(bucket) : bucket[k] = m

\* The matches, once they are categorized
categorizedMatches == IF categorized = <<>> THEN {} ELSE {matches[1][i] : i \in 1..Len(matches[1])}

lowScoreUnscreened(m) == m.score < 25 /\ m.locationMatch /\ ~m.hasAvoid

\* C3: every MatchResult of matchJobsToProfile has its score and its baseScore
\* within [0, 100].
C3_ScoresWithinBounds ==
  matches # <<>> =>
    \A i \in 1..Len(matches[1]) :
      /\ matches[1][i].score \in 0..100
      /\ matches[1][i].baseScore \in 0..100

\* C4: categorizeMatches never places the same match in more than one of the
\* buckets want, qualified and stretch.
C4_WantQualifiedStretchExclusive ==
  \A m \in categorizedMatches :
    /\ ~(inBucket(categorized[1].want, m) /\ inBucket(categorized[1].qualified, m))
    /\ ~(inBucket(categorized[1].want, m) /\ inBucket(categorized[1].stretch, m))
    /\ ~(inBucket(categorized[1].qualified, m) /\ inBucket(categorized[1].stretch, m))

\* Two matches are categorized, one into want and one into stretch.
C4_Witness ==
  /\ categorized # <<>>
  /\ categorized[1].want # <<>>
  /\ categorized[1].stretch # <<>>

\* C5 as stated: a match in the filtered bucket is in none of want, qualified
\* and stretch.
C5_FilteredExcludedFromAllThree ==
  \A m \in categorizedMatches :
    inBucket(categorized[1].filtered, m) =>
      /\ ~inBucket(categorized[1].want, m)
      /\ ~inBucket(categorized[1].qualified, m)
      /\ ~inBucket(categorized[1].stretch, m)

\* C5: a match in the filtered bucket is in neither want nor qualified; it is
\* in stretch as well exactly when 25 <= score < 50, locationMatch and hasAvoid.
C5_FilteredExcludedFromWantAndQualified ==
  \A m \in categorizedMatches :
    /\ inBucket(categorized[1].filtered, m) =>
         /\ ~inBucket(categorized[1].want, m)
         /\ ~inBucket(categorized[1].qualified, m)
    /\ (inBucket(categorized[1].filtered, m) /\ inBucket(categorized[1].stretch, m))
         <=> (m.score >= 25 /\ m.score < 50 /\ m.locationMatch /\ m.hasAvoid)

\* A match with an avoided skill is in filtered and in stretch, and another
\* match with an avoided skill and a score of 50 or more is in filtered.
C5_Witness ==
  /\ \E m \in categorizedMatches :
       inBucket(categorized[1].filtered, m) /\ inBucket(categorized[1].stretch, m)
  /\ \E m \in categorizedMatches :
       inBucket(categorized[1].filtered, m) /\ m.hasAvoid /\ m.locationMatch /\ m.score >= 50

\* C6 as stated: every MatchResult is in at least one of the four buckets.
C6_EveryMatchInSomeBucket ==
  \A m \in categorizedMatches :
    \/ inBucket(categorized[1].want, m)
    \/ inBucket(categorized[1].qualified, m)
    \/ inBucket(categorized[1].stretch, m)
    \/ inBucket(categorized[1].filtered, m)

\* C6: a MatchResult is in at least one of the four buckets exactly when it is
\* not one with score < 25, locationMatch and no avoided skill; such a match
\* is in no bucket.
C6_InSomeBucketUnlessLowScore ==
  \A m \in categorizedMatches :
    (\/ inBucket(categorized[1].want, m)
     \/ inBucket(categorized[1].qualified, m)
     \/ inBucket(categorized[1].stretch, m)
     \/ inBucket(categorized[1].filtered, m))
      <=> ~lowScoreUnscreened(m)

\* One categorized match is in no bucket, and another, with a score under 25
\* as well, is in filtered.
C6_Witness ==
  /\ \E m \in categorizedMatches : lowScoreUnscreened(m)
  /\ \E m \in categorizedMatches : m.score < 25 /\ inBucket(categorized[1].filtered, m)

\* ------------------------------------------------------------ building: properties

\* A map as the set of its entries, whatever their order
entriesOf(m) == {m[i] : i \in 1..Len(m)}

repoCounts(top) == [i \in 1..Len(top) |-> top[i].repoCount]

bothBuilt == profile # <<>> /\ profilePermuted # <<>>

C8_ExcludedSkippedEntirely ==
  (profile # <<>> /\ profileIncluded # <<>>) =>
    /\ profile[1].languages = profileIncluded[1].languages
    /\ profile[1].frameworks = profileIncluded[1].frameworks
    /\ profile[1].tools = profileIncluded[1].tools
    /\ profile[1].patterns = profileIncluded[1].patterns
    /\ profile[1].domains = profileIncluded[1].domains
    /\ profile[1].summary.totalCommits = profileIncluded[1].summary.totalCommits
    /\ profile[1].summary.yearsActive = profileIncluded[1].summary.yearsActive

\* ------------------------------------------------------------ ingestion: further properties

\* The valid entries of the payload, normalized at clock reading now, in
\* payload order
normalizedValid(f, now) ==
  LET ok == SelectSeq(payloadArray(f), validEntry)
  IN  [i \in 1..Len(ok) |-> normalizeJob(ok[i], now).job]

\* Whether two ids are the same string, number or boolean
sameId(a, b) == isPrimitive(a) /\ a = b

\* Of the normalized entries, those whose id is that of no stored record and
\* of no earlier entry, in payload order
newlyAdded(f, jobs, now) ==
  LET n == normalizedValid(f, now)
      fresh == SelectSeq(indices(Len(n)),
                 LAMBDA k : /\ \A j \in 1..Len(jobs) : ~sameId(n[k].id, jobs[j].id)
                            /\ \A j \in 1..(k - 1) : ~sameId(n[k].id, n[j].id))
  IN  [i \in 1..Len(fresh) |-> n[fresh[i]]]

commaSkillsEntry(e) ==
  /\ tag(e) = "obj"
  /\ truthy(get(e, kTitle)) /\ tag(get(e, kTitle)) = "str"
  /\ truthy(get(e, kCompany)) /\ tag(get(e, kCompany)) = "str"
  /\ tag(get(e, kSkills)) = "str" /\ truthy(get(e, kSkills))

\* The comma-separated tokens of a string, each trimmed and lower-cased
tokensOf(s) ==
  LET parts == splitComma(s)
  IN  Arr([i \in 1..Len(parts) |-> Str(trim(toLowerCase(parts[i])))])

\* C12: an entry whose skills field is a comma-separated string is not
\* reported under errors and is stored with skills equal to the list of its
\* tokens, each trimmed and lower-cased.
C12_CommaSkillsAccepted ==
  (result.kind # "none" /\ isArrayPayload(file)) =>
    \A i \in 1..Len(payloadArray(file)) :
      LET e == payloadArray(file)[i]
      IN  commaSkillsEntry(e) =>
            /\ result.kind = "report"
            /\ \A k \in 1..Len(result.errors) : result.errors[k].job # e
            /\ \E j \in 1..Len(store) :
                 /\ store[j].title = get(e, kTitle)
                 /\ store[j].company = get(e, kCompany)
                 /\ store[j].skills = tokensOf(val(get(e, kSkills)))

\* A string that is empty after trimming
blank(v) == tag(v) = "str" /\ trim(val(v)) = <<>>

\* C13: an entry whose title or company is empty after trimming is reported
\* under errors, and no persisted record carries the placeholder title or
\* company.
C13_BlankRequiredRejected ==
  /\ (result.kind # "none" /\ isArrayPayload(file)) =>
       \A i \in 1..Len(payloadArray(file)) :
         LET e == payloadArray(file)[i]
         IN  (tag(e) = "obj" /\ (blank(get(e, kTitle)) \/ blank(get(e, kCompany)))) =>
               /\ result.kind = "report"
               /\ \E k \in 1..Len(result.errors) : result.errors[k].job = e
  /\ \A j \in 1..Len(store) :
       /\ store[j].title # Str(<<"U","n","k","n","o","w","n"," ","P","o","s","i","t","i","o","n">>)
       /\ store[j].company # Str(<<"U","n","k","n","o","w","n"," ","C","o","m","p","a","n","y">>)

\* The entries of the payload are valid, carry no id of their own, share
\* their company and title, and differ pairwise in some other field or value.
sameCompanyTitleDifferent(f) ==
  /\ isArrayPayload(f)
  /\ Len(payloadArray(f)) >= 2
  /\ \A i \in 1..Len(payloadArray(f)) :
       validEntry(payloadArray(f)[i]) /\ ~truthy(get(payloadArray(f)[i], kId))
  /\ \A i, j \in 1..Len(payloadArray(f)) :
       i # j => /\ companyTitle(payloadArray(f)[i]) = companyTitle(payloadArray(f)[j])
                /\ payloadArray(f)[i] # payloadArray(f)[j]

\* C14: postings with the same company and title that differ structurally
\* receive different ids, so each is counted as added; and normalizing the
\* same raw entry at two times yields the same id.
C14_StructuralDifferenceDistinctIds ==
  /\ (result.kind # "none" /\ calls = 1 /\ sameCompanyTitleDifferent(file)) =>
       /\ \A i, j \in 1..Len(payloadArray(file)) :
            i # j => generateJobId(payloadArray(file)[i]) # generateJobId(payloadArray(file)[j])
       /\ result.kind = "report"
       /\ result.added = Len(payloadArray(file))
       /\ result.skipped = 0
  /\ (result.kind = "report" /\ isArrayPayload(file)) =>
       \A i \in 1..Len(payloadArray(file)) :
         validEntry(payloadArray(file)[i]) =>
           normalizeJob(payloadArray(file)[i], 1).job.id
             = normalizeJob(payloadArray(file)[i], 2).job.id

\* C14, the second part alone: normalizing the same raw entry at two times
\* yields the same id.
SameEntrySameId ==
  (result.kind = "report" /\ isArrayPayload(file)) =>
    \A i \in 1..Len(payloadArray(file)) :
      validEntry(payloadArray(file)[i]) =>
        normalizeJob(payloadArray(file)[i], 1).job.id
          = normalizeJob(payloadArray(file)[i], 2).job.id

\* ------------------------------------------------------------ matching: further properties

emptyProfile == skillsProfile.languages = <<>> /\ skillsProfile.frameworks = <<>>

emptyInput == storedJobs = <<>> \/ emptyProfile

noMatchInAnyBucket ==
  /\ categorized[1].want = <<>>
  /\ categorized[1].qualified = <<>>
  /\ categorized[1].stretch = <<>>
  /\ categorized[1].filtered = <<>>

\* C15: with an empty job collection or a profile without languages and
\* frameworks, matching does not throw and no MatchResult lands in want,
\* qualified, stretch or filtered.
C15_TotalOnEmptyInput ==
  emptyInput =>
    /\ ~matchThrew
    /\ categorized # <<>> => noMatchInAnyBucket

\* C15, what holds of it: matching throws only on a stored job whose
\* description or location is no string; an empty job collection gives four
\* empty buckets; an empty profile gives score 0 to every job and leaves
\* want, qualified and stretch empty, while filtered holds the jobs that fail
\* the location preference or list an avoided skill.
EmptyInputGivesNoRankedMatch ==
  /\ matchThrew =>
       \E i \in 1..Len(storedJobs) :
         tag(storedJobs[i].description) # "str" \/ tag(storedJobs[i].location) # "str"
  /\ (categorized # <<>> /\ storedJobs = <<>>) => noMatchInAnyBucket
  /\ (categorized # <<>> /\ emptyProfile) =>
       /\ \A i \in 1..Len(matches[1]) :
            matches[1][i].score = 0 /\ matches[1][i].baseScore = 0
       /\ categorized[1].want = <<>>
       /\ categorized[1].qualified = <<>>
       /\ categorized[1].stretch = <<>>
       /\ categorized[1].filtered = SelectSeq(matches[1], isFiltered)

\* C15, the two inputs on which matching an empty profile is not total or not empty:
EmptyProfileThrows == ~(emptyProfile /\ matchThrew)
EmptyProfileFilters == ~(emptyProfile /\ categorized # <<>> /\ categorized[1].filtered # <<>>)

\* C20: in every MatchResult no skill name appears both in bonusSkills and in
\* matchedSkills.
C20_BonusNeverMatched ==
  matches # <<>> =>
    \A i \in 1..Len(matches[1]) :
      \A b \in 1..Len(matches[1][i].bonusSkills) :
        \A m \in 1..Len(matches[1][i].matchedSkills) :
          matches[1][i].bonusSkills[b].name # matches[1][i].matchedSkills[m].name

\* C20, what holds: no language is both a bonus and a matched skill; a bonus
\* name that is also matched is matched as a framework.
BonusLanguageNeverMatchedLanguage ==
  matches # <<>> =>
    \A i \in 1..Len(matches[1]) :
      \A b \in 1..Len(matches[1][i].bonusSkills) :
        \A m \in 1..Len(matches[1][i].matchedSkills) :
          matches[1][i].bonusSkills[b].name = matches[1][i].matchedSkills[m].name
            => matches[1][i].matchedSkills[m].type = "framework"

\* ------------------------------------------------------------ proficiency: properties

\* Whether (count / total) * (tenths / 10) >= num / den, in integers
ratioAtLeast(count, total, tenths, num, den) == count * tenths * den >= num * 10 * total

\* The tier of the step function at 0.5, 0.3 and 0.15
stepTier(count, total, tenths) ==
  IF ratioAtLeast(count, total, tenths, 1, 2) THEN "expert"
  ELSE IF ratioAtLeast(count, total, tenths, 3, 10) THEN "advanced"
  ELSE IF ratioAtLeast(count, total, tenths, 15, 100) THEN "intermediate"
  ELSE "familiar"

tierRank(t) ==
  IF t = "familiar" THEN 0 ELSE IF t = "intermediate" THEN 1
  ELSE IF t = "advanced" THEN 2 ELSE 3

BuilderUsesStepFunction ==
  profile # <<>> =>
    /\ \A i \in 1..Len(profile[1].languages) :
         profile[1].languages[i].v.proficiency
           = stepTier(profile[1].languages[i].v.repoCount, profile[1].summary.totalRepos, 10)
    /\ \A i \in 1..Len(profile[1].frameworks) :
         profile[1].frameworks[i].v.proficiency
           = stepTier(profile[1].frameworks[i].v.repoCount, profile[1].summary.totalRepos,
                      FRAMEWORK_CATEGORIES[profile[1].frameworks[i].v.key].weight)

\* C17: for a fixed totalRepos and weight, a larger repoCount never yields a
\* lower tier in the order familiar < intermediate < advanced < expert.
C17_MonotonicProficiency ==
  (tier # <<>> /\ tierMore # <<>>) => tierRank(tier[1]) <= tierRank(tierMore[1])

\* Both tiers are calculated, for a weight above 1, the smaller repoCount
\* giving intermediate and the larger, all repositories, expert.
C17_Witness ==
  /\ tier # <<>> /\ tierMore # <<>>
  /\ tierWeight > 10
  /\ tierCount < tierCountMore /\ tierCountMore = tierTotal
  /\ tier[1] = "intermediate" /\ tierMore[1] = "expert"

\* ------------------------------------------------------------ building: further properties

\* A top list against the entries it is drawn from: at most five, each the
\* name of an eligible entry, as many as there are eligible entries up to
\* five, in non-increasing repoCount order, and none left out with a higher
\* repoCount than one included.
isTopOf(top, eligible) ==
  /\ Len(top) <= 5
  /\ Len(top) = (IF Len(eligible) < 5 THEN Len(eligible) ELSE 5)
  /\ \A i \in 1..Len(top) : \E j \in 1..Len(eligible) :
       eligible[j].k = top[i].name /\ eligible[j].v.repoCount = top[i].repoCount
  /\ \A i, j \in 1..Len(top) : i # j => top[i].name # top[j].name
  /\ \A i \in 1..(Len(top) - 1) : top[i].repoCount >= top[i + 1].repoCount
  /\ \A j \in 1..Len(eligible) :
       (\A i \in 1..Len(top) : top[i].name # eligible[j].k) =>
         \A i \in 1..Len(top) : eligible[j].v.repoCount <= top[i].repoCount

languageLevel(entries) == SelectSeq(entries, LAMBDA e : e.v.level = "language")

\* C18: topLanguages and topFrameworks hold at most 5 entries, each named by
\* a key of languages or frameworks, topLanguages only entries of level
\* language, both in non-increasing repoCount order, and no eligible entry
\* left out has a higher repoCount than one included.
C18_TopListsAreTopFive ==
  profile # <<>> =>
    /\ isTopOf(profile[1].summary.topLanguages, languageLevel(profile[1].languages))
    /\ \A i \in 1..Len(profile[1].summary.topLanguages) :
         profile[1].summary.topLanguages[i].level = "language"
    /\ isTopOf(profile[1].summary.topFrameworks, profile[1].frameworks)

\* A built profile has more than five languages of level language and more
\* than five frameworks, with repoCounts that differ, and one language of
\* another level.
C18_Witness ==
  /\ profile # <<>>
  /\ Len(languageLevel(profile[1].languages)) > 5
  /\ Len(languageLevel(profile[1].languages)) < Len(profile[1].languages)
  /\ Len(profile[1].frameworks) > 5
  /\ Len(profile[1].summary.topLanguages) = 5
  /\ profile[1].summary.topLanguages[1].repoCount > profile[1].summary.topLanguages[5].repoCount
  /\ profile[1].summary.topFrameworks[1].repoCount > profile[1].summary.topFrameworks[5].repoCount

\* The non-excluded repositories, by position, that declare a dependency
declaring(dep) ==
  {i \in 1..Len(analyzed) :
     /\ ~analyzed[i].excluded
     /\ \E e \in 1..Len(analyzed[i].dependencies) :
          \E d \in 1..Len(analyzed[i].dependencies[e].v) :
            analyzed[i].dependencies[e].v[d] = dep}

\* C19: every entry of profile.tools is a dependency declared by at least two
\* distinct non-excluded repositories, its repoCount is the number of those
\* repositories, and profile.tools holds at most 20 entries.
C19_ToolsFromTwoRepositories ==
  profile # <<>> =>
    /\ Len(profile[1].tools) <= 20
    /\ \A i \in 1..Len(profile[1].tools) :
         /\ Cardinality(declaring(profile[1].tools[i].k)) >= 2
         /\ profile[1].tools[i].v.repoCount = Cardinality(declaring(profile[1].tools[i].k))

\* C19, what holds: a tool's repoCount is the number of times the dependency
\* is listed by non-excluded repositories, every listing counted, and it is 2
\* or more.
mentions(dep) ==
  UNION {UNION {{<<i, e, d>> : d \in {d \in 1..Len(analyzed[i].dependencies[e].v) :
                                        analyzed[i].dependencies[e].v[d] = dep}} :
                e \in 1..Len(analyzed[i].dependencies)} :
         i \in {i \in 1..Len(analyzed) : ~analyzed[i].excluded}}

ToolsCountListings ==
  profile # <<>> =>
    /\ Len(profile[1].tools) <= 20
    /\ \A i \in 1..Len(profile[1].tools) :
         /\ profile[1].tools[i].v.repoCount >= 2
         /\ profile[1].tools[i].v.repoCount = Cardinality(mentions(profile[1].tools[i].k))

\* ------------------------------------------------------------ matched and missing skills

\* The lower-cased skill tokens of a stored job, in job order
tokensOfJob(job) ==
  [i \in 1..Len(val(job.skills)) |-> toLowerCase(val(val(job.skills)[i]))]

\* The lower-cased name of a profile language followed by its aliases
namesOfLanguage(name) ==
  <<toLowerCase(name)>> \o (IF name \in DOMAIN LANGUAGE_SKILLS
                            THEN LANGUAGE_SKILLS[name].aliases ELSE <<>>)

\* Neither the tokens nor the description of the job name a language, an
\* alias or a framework of the profile
namesNothingOf(job, prof) ==
  LET desc == toLowerCase(val(job.description))
      named(n) == has(tokensOfJob(job), n) \/ includes(desc, n)
  IN  /\ \A i \in 1..Len(prof.languages) :
           \A a \in 1..Len(namesOfLanguage(prof.languages[i].k)) :
             ~named(namesOfLanguage(prof.languages[i].k)[a])
      /\ \A i \in 1..Len(prof.frameworks) : ~named(toLowerCase(prof.frameworks[i].k))

\* C21: missingSkills is the job's lower-cased tokens, in job order, that no
\* entry of matchedSkills is named after, case-insensitively; a job that names
\* nothing of the profile has matchedSkills empty, every token missing and
\* baseScore 0.
C21_MissingIsUnmatchedTokens ==
  matches # <<>> =>
    \A i \in 1..Len(matches[1]) :
      LET r == matches[1][i]
          named(s) == \E m \in 1..Len(r.matchedSkills) :
                        toLowerCase(r.matchedSkills[m].name) = s
      IN  /\ r.missingSkills = SelectSeq(tokensOfJob(r.job), LAMBDA s : ~named(s))
          /\ namesNothingOf(r.job, skillsProfile) =>
               /\ r.matchedSkills = <<>>
               /\ r.missingSkills = tokensOfJob(r.job)
               /\ r.baseScore = 0

\* A job with a matched and a missing token whose matched name is spelled with
\* a capital, next to a job that names nothing of a profile that is not empty
C21_Witness ==
  /\ matches # <<>>
  /\ Len(skillsProfile.languages) > 0
  /\ \E i \in 1..Len(matches[1]) :
       /\ matches[1][i].missingSkills # <<>>
       /\ \E m \in 1..Len(matches[1][i].matchedSkills) :
            /\ has(tokensOfJob(matches[1][i].job), toLowerCase(matches[1][i].matchedSkills[m].name))
            /\ matches[1][i].matchedSkills[m].name # toLowerCase(matches[1][i].matchedSkills[m].name)
  /\ \E i \in 1..Len(matches[1]) :
       /\ namesNothingOf(matches[1][i].job, skillsProfile)
       /\ tokensOfJob(matches[1][i].job) # <<>>

\* C30: a token that is an alias of a matched language is not listed in
\* missingSkills of the same MatchResult.
C30_AliasMatchedNotMissing ==
  matches # <<>> =>
    \A i \in 1..Len(matches[1]) :
      \A m \in 1..Len(matches[1][i].matchedSkills) :
        matches[1][i].matchedSkills[m].type = "language" =>
          \A a \in 2..Len(namesOfLanguage(matches[1][i].matchedSkills[m].name)) :
            ~has(matches[1][i].missingSkills,
                 namesOfLanguage(matches[1][i].matchedSkills[m].name)[a])

\* C30, what holds: a token spelled as the lower-cased name of a matched entry
\* is never missing.
NameMatchedNotMissing ==
  matches # <<>> =>
    \A i \in 1..Len(matches[1]) :
      \A m \in 1..Len(matches[1][i].matchedSkills) :
        ~has(matches[1][i].missingSkills, toLowerCase(matches[1][i].matchedSkills[m].name))

\* ------------------------------------------------------------ location filter

\* Some preferred location is, case-insensitively, the word remote
prefersRemote(prefs) ==
  \E p \in 1..Len(prefs.locations) : toLowerCase(prefs.locations[p]) = <<"r","e","m","o","t","e">>

\* Some preferred location is, case-insensitively, part of the job's location
locationNamed(job, prefs) ==
  \E p \in 1..Len(prefs.locations) :
    includes(toLowerCase(val(job.location)), toLowerCase(prefs.locations[p]))

\* C22: locationMatch is true exactly when the preferences list no location,
\* or the job is remote (flag truthy or the word in its location) and remote is
\* preferred, or a preferred location is part of the job's location text.
C22_LocationMatch ==
  matches # <<>> =>
    \A i \in 1..Len(matches[1]) :
      matches[1][i].locationMatch <=>
        \/ Len(preferences.locations) = 0
        \/ /\ \/ truthy(matches[1][i].job.remote)
              \/ includes(toLowerCase(val(matches[1][i].job.location)), <<"r","e","m","o","t","e">>)
           /\ prefersRemote(preferences)
        \/ locationNamed(matches[1][i].job, preferences)

\* Locations are preferred, one job is remote by its location text alone and
\* matches, another job does not match
C22_Witness ==
  /\ matches # <<>>
  /\ Len(preferences.locations) > 0
  /\ \E i \in 1..Len(matches[1]) :
       /\ matches[1][i].locationMatch
       /\ ~truthy(matches[1][i].job.remote)
       /\ prefersRemote(preferences)
  /\ \E i \in 1..Len(matches[1]) : ~matches[1][i].locationMatch

\* ------------------------------------------------------------ order of the results

\* The one-to-one assignments of the places 1..n to the places 1..n
placements(n) == {f \in [1..n -> 1..n] : \A i, j \in 1..n : f[i] = f[j] => i = j}

\* ms holds the elements of ranked that are in it, in the order of ranked
keepsOrderOf(ms, ranked) ==
  ms = SelectSeq(ranked, LAMBDA r : \E k \in 1..Len(ms) : ms[k] = r)

\* C23: the result holds one MatchResult per stored job, in non-increasing
\* order of score, results of equal score in the order of their jobs in the
\* input; every bucket of categorizeMatches keeps the order of the result.
C23_OnePerJobSortedStable ==
  /\ matches # <<>> =>
       /\ Len(matches[1]) = Len(storedJobs)
       /\ \E at \in placements(Len(storedJobs)) :
            /\ \A i \in 1..Len(matches[1]) : matches[1][i].job = storedJobs[at[i]]
            /\ \A i, j \in 1..Len(matches[1]) :
                 i < j =>
                   /\ matches[1][i].score >= matches[1][j].score
                   /\ matches[1][i].score = matches[1][j].score => at[i] < at[j]
  /\ categorized # <<>> =>
       /\ keepsOrderOf(categorized[1].want, matches[1])
       /\ keepsOrderOf(categorized[1].qualified, matches[1])
       /\ keepsOrderOf(categorized[1].stretch, matches[1])
       /\ keepsOrderOf(categorized[1].filtered, matches[1])

\* Two different jobs of equal score, ranked in input order and categorized
\* into the same bucket
C23_Witness ==
  /\ categorized # <<>>
  /\ Len(matches[1]) = 2
  /\ matches[1][1].job # matches[1][2].job
  /\ matches[1][1].score = matches[1][2].score
  /\ matches[1][1].job = storedJobs[1]
  /\ \/ Len(categorized[1].want) = 2
     \/ Len(categorized[1].qualified) = 2
     \/ Len(categorized[1].stretch) = 2

\* Two jobs of different score, the second of the input ranked first
C23_WitnessReordered ==
  /\ categorized # <<>>
  /\ Len(matches[1]) = 2
  /\ matches[1][1].score > matches[1][2].score
  /\ matches[1][1].job = storedJobs[2]
  /\ matches[1][1].job # storedJobs[1]

\* ------------------------------------------------------------ buckets by score

\* The preferences of the scenario: one wanted skill, remote work
wantsReactRemote(prefs) ==
  /\ prefs.wantSkills = <<<<"R","e","a","c","t">>>>
  /\ prefs.avoidSkills = <<>>
  /\ prefs.locations = <<<<"R","e","m","o","t","e">>>>

\* C24: a MatchResult with locationMatch is in want iff wantMatch, score >= 50
\* and no avoided skill; in qualified iff no wantMatch, score >= 50 and no
\* avoided skill; in stretch iff 25 <= score < 50. A remote job matched on the
\* wanted skill under {wantSkills, locations: [Remote]} is in want from score
\* 50 on and in stretch from 25 to 49.
C24_BucketsByScore ==
  categorized # <<>> =>
    \A i \in 1..Len(matches[1]) :
      LET m == matches[1][i]
      IN  m.locationMatch =>
            /\ inBucket(categorized[1].want, m)
                 <=> (m.wantMatch /\ m.score >= 50 /\ ~m.hasAvoid)
            /\ inBucket(categorized[1].qualified, m)
                 <=> (~m.wantMatch /\ m.score >= 50 /\ ~m.hasAvoid)
            /\ inBucket(categorized[1].stretch, m) <=> (m.score >= 25 /\ m.score < 50)
            /\ (wantsReactRemote(preferences) /\ truthy(m.job.remote) /\ m.wantMatch) =>
                 /\ m.score >= 50 => inBucket(categorized[1].want, m)
                 /\ (m.score >= 25 /\ m.score < 50) =>
                      /\ inBucket(categorized[1].stretch, m)
                      /\ ~inBucket(categorized[1].want, m)

\* The scenario with two remote jobs matched on the wanted skill, one in want
\* and one in stretch
C24_Witness ==
  /\ categorized # <<>>
  /\ wantsReactRemote(preferences)
  /\ \E i \in 1..Len(matches[1]) :
       /\ truthy(matches[1][i].job.remote) /\ matches[1][i].wantMatch
       /\ matches[1][i].score >= 50
       /\ inBucket(categorized[1].want, matches[1][i])
  /\ \E i \in 1..Len(matches[1]) :
       /\ truthy(matches[1][i].job.remote) /\ matches[1][i].wantMatch
       /\ matches[1][i].score < 50
       /\ inBucket(categorized[1].stretch, matches[1][i])

\* A match with a wanted and an avoided skill, a matching location and a score
\* of 50 or more, kept out of want and of qualified
C24_WitnessAvoided ==
  /\ categorized # <<>>
  /\ \E i \in 1..Len(matches[1]) :
       /\ matches[1][i].locationMatch /\ matches[1][i].wantMatch
       /\ matches[1][i].hasAvoid /\ matches[1][i].score >= 50
       /\ ~inBucket(categorized[1].want, matches[1][i])

\* ------------------------------------------------------------ preference adjustment

\* W: the matched entries whose name holds some wanted skill
wanted(r, prefs) ==
  Cardinality({m \in 1..Len(r.matchedSkills) :
     \E w \in 1..Len(prefs.wantSkills) :
       includes(toLowerCase(r.matchedSkills[m].name), toLowerCase(prefs.wantSkills[w]))})

\* A: the skill tokens of the job that hold some avoided skill
avoided(r, prefs) ==
  Cardinality({t \in 1..Len(tokensOfJob(r.job)) :
     \E a \in 1..Len(prefs.avoidSkills) :
       includes(tokensOfJob(r.job)[t], toLowerCase(prefs.avoidSkills[a]))})

clamp(x, lo, hi) == IF x < lo THEN lo ELSE IF x > hi THEN hi ELSE x

\* C26: the final score is clamp(baseScore + 10 W - 15 A, 0, 100); wantMatch
\* is W > 0 and hasAvoid is A > 0; without wanted and avoided skills the score
\* is the clamped base score and both flags are false.
C26_FinalScore ==
  matches # <<>> =>
    \A i \in 1..Len(matches[1]) :
      LET r == matches[1][i]
          W == wanted(r, preferences)
          A == avoided(r, preferences)
      IN  /\ r.score = clamp(r.baseScore + 10 * W - 15 * A, 0, 100)
          /\ r.wantMatch <=> W > 0
          /\ r.hasAvoid <=> A > 0
          /\ (preferences.wantSkills = <<>> /\ preferences.avoidSkills = <<>>) =>
               /\ r.score = clamp(r.baseScore, 0, 100)
               /\ ~r.wantMatch /\ ~r.hasAvoid

\* A result with wanted and avoided skills whose score is neither its base
\* score nor a clamped one
C26_Witness ==
  /\ matches # <<>>
  /\ \E i \in 1..Len(matches[1]) :
       /\ wanted(matches[1][i], preferences) > 0
       /\ avoided(matches[1][i], preferences) > 0
       /\ matches[1][i].score # matches[1][i].baseScore
       /\ matches[1][i].score \in 1..99

\* A result whose job holds two avoided skills and whose score is not clamped
C26_WitnessTwoAvoided ==
  /\ matches # <<>>
  /\ \E i \in 1..Len(matches[1]) :
       /\ avoided(matches[1][i], preferences) = 2
       /\ matches[1][i].score \in 1..99

\* Results clamped at either end
C26_WitnessClamped ==
  /\ matches # <<>>
  /\ \E i \in 1..Len(matches[1]) :
       matches[1][i].score = 100 /\ matches[1][i].baseScore + 10 * wanted(matches[1][i], preferences) > 100
  /\ \E i \in 1..Len(matches[1]) :
       matches[1][i].score = 0 /\ matches[1][i].baseScore < 15 * avoided(matches[1][i], preferences)

\* ------------------------------------------------------------ ingestion accounting

\* What the loop of a call that returns iterates over: the elements of a
\* top-level array or of the jobs member, nothing for an object without one
rawEntries(f) ==
  IF tag(f.v) = "arr" THEN val(f.v)
  ELSE IF truthy(get(f.v, kJobs)) THEN elements(get(f.v, kJobs))
  ELSE <<>>

validEntries(f) == SelectSeq(rawEntries(f), validEntry)

\* C27: a call that returns reports added + skipped + errors.length equal to
\* the number of raw entries, the persisted collection grows by added records,
\* and a valid entry repeated in the payload is added at most once and skipped
\* at each repetition.
C27_IngestionAccounting ==
  [][(IngestStep /\ result'.kind = "report") =>
        /\ result'.added + result'.skipped + Len(result'.errors) = Len(rawEntries(file))
        /\ Len(store') = Len(store) + result'.added
        /\ result'.added <= Cardinality({validEntries(file)[i] : i \in 1..Len(validEntries(file))})
        /\ result'.skipped >= Len(validEntries(file))
                                - Cardinality({validEntries(file)[i] : i \in 1..Len(validEntries(file))})]_vars

\* C27, what holds: the three counts add up to the number of raw entries and
\* the persisted collection grows by added records.
CountsAddUp ==
  [][(IngestStep /\ result'.kind = "report") =>
        /\ result'.added + result'.skipped + Len(result'.errors) = Len(rawEntries(file))
        /\ Len(store') = Len(store) + result'.added]_vars

\* C27, what holds of repetitions: a repeated valid entry whose id, its own or
\* the generated one, is a string, a number or a boolean is added at most once.
RepeatedPrimitiveIdAddedOnce ==
  [][(IngestStep /\ result'.kind = "report"
        /\ \A i \in 1..Len(validEntries(file)) :
             isPrimitive(normalizeJob(validEntries(file)[i], calls + 1).job.id)) =>
        /\ result'.added <= Cardinality({validEntries(file)[i] : i \in 1..Len(validEntries(file))})
        /\ result'.skipped >= Len(validEntries(file))
                                - Cardinality({validEntries(file)[i] : i \in 1..Len(validEntries(file))})]_vars

\* A call has returned a report on a payload that repeats a valid entry and
\* has counted an addition and a skip
RepetitionSkipped ==
  /\ result.kind = "report" /\ result.added = 1 /\ result.skipped >= 1
  /\ Len(validEntries(file)) = 2
  /\ validEntries(file)[1] = validEntries(file)[2]

\* ------------------------------------------------------------ history: properties

\* A full record, as against the one the catch block returns
fullRecord(h) == "error" \notin DOMAIN h

\* The invocations that failed
failedRuns(runs) == {k \in DOMAIN runs : ~runs[k].ok}

\* C25: analyzeGitHistory returns a full record with freshness fresh, aging or
\* stale, or the record for an unavailable history; when the log succeeded and
\* one other invocation failed, the record is full and keeps what the others
\* obtained; a failed remote or upstream query only gives hasRemote = FALSE or
\* remoteBehind = 0.
C25_InvocationsFaultTolerant ==
  gitHistory # <<>> =>
    LET h == gitHistory[1]
    IN  /\ \/ h = HistoryUnavailable
           \/ fullRecord(h) /\ h.freshness \in {"fresh", "aging", "stale"}
        /\ (gitRuns.lastCommit.ok /\ Cardinality(failedRuns(gitRuns)) = 1) =>
             /\ fullRecord(h)
             /\ h.lastCommit = gitRuns.lastCommit.out
             /\ gitRuns.commitCount.ok => h.commitCount = parseInt(trim(gitRuns.commitCount.out))
             /\ gitRuns.currentBranch.ok => h.currentBranch = trim(gitRuns.currentBranch.out)
        /\ (fullRecord(h) /\ ~gitRuns.remote.ok) => ~h.hasRemote /\ h.remoteBehind = 0
        /\ (fullRecord(h) /\ ~gitRuns.upstream.ok) => h.remoteBehind = 0

\* C25, what holds: the call returns one of the two records; with the log, the
\* count and the branch query succeeding the record is full and keeps their
\* output whatever the remote query, the upstream query and the two
\* pipelines do; a failed remote or upstream query gives hasRemote = FALSE or
\* remoteBehind = 0.
OuterInvocationsDecide ==
  gitHistory # <<>> =>
    LET h == gitHistory[1]
    IN  /\ \/ h = HistoryUnavailable
           \/ fullRecord(h) /\ h.freshness \in {"fresh", "aging", "stale"}
        /\ fullRecord(h) <=>
             (gitRuns.lastCommit.ok /\ gitRuns.commitCount.ok /\ gitRuns.currentBranch.ok)
        /\ fullRecord(h) =>
             /\ h.lastCommit = gitRuns.lastCommit.out
             /\ h.commitCount = parseInt(trim(gitRuns.commitCount.out))
             /\ ~gitRuns.remote.ok => ~h.hasRemote /\ h.remoteBehind = 0
             /\ ~gitRuns.upstream.ok => h.remoteBehind = 0
             /\ ~gitRuns.authors.ok => h.authors = <<>>

\* The branch query alone fails in a repository with commits, and the record
\* for an unavailable history is returned
BranchFailureDiscardsAll ==
  /\ gitHistory # <<>>
  /\ failedRuns(gitRuns) = {"currentBranch"}
  /\ gitHistory[1] = HistoryUnavailable

\* A last commit of 90 days ago is returned as aging
AgingAtNinetyDays ==
  /\ gitHistory # <<>> /\ fullRecord(gitHistory[1])
  /\ gitHistory[1].daysSinceCommit = 90 /\ gitHistory[1].freshness = "aging"

\* ------------------------------------------------------------ the analyze screen: properties

\* The review has been ended by a key press
reviewEnded == screenState = "complete" /\ endedBy # "none"

\* C28: when the review has ended and a repository was included, the profile
\* and the repo list in the store are built from all the repositories decided
\* on, the decision of the key press that ended the review among them.
C28_SavedFromAllDecisions ==
  (reviewEnded /\ included(screenAnalyzed) # <<>>) =>
    /\ storeRepos = <<screenAnalyzed>>
    /\ storeSkills = <<buildSkillsProfile(included(screenAnalyzed), Today)>>

\* C28, what holds: a review ended by the finish key saves all the decisions
\* made; a review ended by including or excluding the last repository saves,
\* if anything, the decisions made before that key press.
SavedFromRenderedDecisions ==
  LET before == IF endedBy \in {"include", "exclude"}
                THEN SubSeq(screenAnalyzed, 1, Len(screenAnalyzed) - 1)
                ELSE screenAnalyzed
  IN  reviewEnded =>
        IF included(before) # <<>>
        THEN /\ storeRepos = <<before>>
             /\ storeSkills = <<buildSkillsProfile(included(before), Today)>>
        ELSE storeRepos = <<>> /\ storeSkills = <<>>

\* The only repository is included and nothing is saved
OnlyRepositoryIncludedUnsaved ==
  /\ reviewEnded /\ endedBy = "include"
  /\ Len(screenRepos) = 1
  /\ included(screenAnalyzed) # <<>>
  /\ storeSkills = <<>>

\* A review of three repositories ended by the finish key after two decisions
FinishedEarly ==
  /\ reviewEnded /\ endedBy = "finish"
  /\ Len(screenRepos) = 3 /\ Len(screenAnalyzed) = 2
  /\ storeRepos = <<screenAnalyzed>>

\* ------------------------------------------------------------ two processes: properties

bothDone == \A p \in Procs : procAt[p] = "done"

\* The jobs the call of process p counted as added
addedBy(p) == newlyAdded(procFile[p], procLoaded[p], 1)

stored(job) == \E i \in 1..Len(store) : store[i] = job

\* C29: once both calls have finished, every job either of them reported as
\* added is in the persisted collection.
C29_NoLostUpdate ==
  bothDone =>
    \A p \in Procs :
      procReport[p].kind = "report" =>
        \A k \in 1..Len(addedBy(p)) : stored(addedBy(p)[k])

\* C29, what holds: when neither call loaded between the other's load and
\* save, every job reported as added is in the persisted collection, and each
\* call reports as many added as addedBy counts.
NoLostUpdateWhenSerial ==
  /\ \A p \in Procs :
       (procAt[p] = "done" /\ procReport[p].kind = "report") =>
         procReport[p].added = Len(addedBy(p))
  /\ (bothDone /\ ~overlapped) =>
       \A p \in Procs :
         procReport[p].kind = "report" =>
           \A k \in 1..Len(addedBy(p)) : stored(addedBy(p)[k])

\* Both calls loaded before either saved, both report an added job, and the
\* persisted collection holds one job only
OverlapLosesJob ==
  /\ bothDone /\ overlapped
  /\ \A p \in Procs : procReport[p].kind = "report" /\ procReport[p].added = 1
  /\ Len(store) = 1

====
